---- MODULE Spec2Model ----
(***************************************************************************)
(* TapeDB: base + log of changes, replayed into a live State.              *)
(*                                                                         *)
(* The module holds seven state machines over one set of variables:        *)
(*   Spec       - one database directory and the file-level handle on it   *)
(*                (create, open, apply, close, splice);                    *)
(*   SpecPayload - the same with payload files, plaintext only;            *)
(*   SpecEngine - callers of Database.Apply and state readers on one       *)
(*                engine handle, step by step under its RWMutex;           *)
(*   SpecDeck   - callers of the deck (LRU of open handles) step by step   *)
(*                under databasesMutex and the per-entry dbMutex           *)
(*                (SpecDeckFair: the same with fair lock acquisition);     *)
(*   SpecLog    - the encrypting log writer and the decrypting log reader  *)
(*                over one log buffer;                                     *)
(*   SpecBlock  - the block writer and block reader of encrypted files,    *)
(*                by lengths;                                              *)
(*   SpecFrame  - the plain log writer and reader over framed entries.     *)
(* SpecKeyedPayload, SpecMeta and SpecCrypt are the first machine started  *)
(* on encrypted directories and with the meta option; SpecReplay starts it *)
(* on longer logs, SpecSplice splices over every pair of keys and with     *)
(* failing selectors, SpecInterrupt ends splices before the first rename,  *)
(* SpecSpliceFail splices directories that make the splice fail,           *)
(* SpecPayloadSplice splices directories with payload files across keys,   *)
(* SpecWriteFail lets the log write of an apply fail; SpecDeckFail is the  *)
(* deck where Close and RemoveAll can fail, SpecTorn the plain log codec   *)
(* on logs whose final record is cut.                                      *)
(***************************************************************************)
EXTENDS Integers, Sequences, FiniteSets, TLC

VARIABLES
    fs,     \* the database directory: meta, base, log, base.new, log.new, payload-<id>
    db,     \* the file-level handle (file.Database wrapping io.Database)
    last,   \* outcome of the last file-level operation
    hist,   \* history: what was applied since the directory was created empty
    engine,         \* one io.Database: key, base, state, logLen, the log behind logW
    stateMutex,     \* its sync.RWMutex: the writer and the set of readers holding it
    procs,          \* callers of Database.Apply and of state reads: position and locals
    applyOrder,     \* history: the changes in the order their state.Apply succeeded
    returned,       \* history: how many Apply calls have returned success
    dirs,           \* the database directory behind each deck path
    databases,      \* the deck's lru.Cache: size and items, most recently used first
    databasesMutex, \* the caller holding Deck.databasesMutex
    deckEntries,    \* every entry the deck ever made: its db and the holder of dbMutex
    callers,        \* callers of the deck: position, path, key, entry in hand
    deckLast,       \* the error the last deck call that returned gave back
    deckCalls,      \* how many deck calls were made so far
    logBuffer,      \* the entries behind a crypto.LogWriter (tapeio.LogBuffer)
    logKey,         \* the key the crypto.LogWriter was made with
    logPlain,       \* history: the plaintext bodies handed to WriteEntry, in order
    logRead,        \* what the last read of one entry through a crypto.LogReader gave
    blockW,         \* a crypto.BlockWriter: key, nonceWritten, buffer, closed
    blockOut,       \* the bytes it wrote: the nonce and the framed blocks, in order
    blockPlain,     \* history: the lengths of the plaintext chunks handed to Write
    blockRead,      \* what reading blockOut to its end through a BlockReader gave
    frameLog,       \* the entries written through a plain logWriter, in order
    frameTail,      \* stray bytes after the last entry: a header torn off by a crash
    frameR,         \* a plain logReader over those bytes, driven by ReadLogEntries
    frameGot        \* history: what the consumer was handed for each entry read

dbVars == <<fs, db, last, hist>>
engineVars == <<engine, stateMutex, procs, applyOrder, returned>>
deckVars == <<dirs, databases, databasesMutex, deckEntries, callers, deckLast, deckCalls>>
logVars == <<logBuffer, logKey, logPlain, logRead>>
codecVars == <<blockW, blockOut, blockPlain, blockRead, frameLog, frameTail, frameR, frameGot>>
vars == <<dbVars, engineVars, deckVars, logVars, codecVars>>

----------------------------------------------------------------------------
(* Bounds *)

MaxLog == 2          \* longest log the model lets a directory grow to
MaxCounter == 3      \* largest counter value the model lets a state reach
MaxPayloads == 1     \* most payloads handed to one apply call

----------------------------------------------------------------------------
(* Keys, errors *)

NoKey == "none"
Keys == {NoKey, "k1"}

Ok == "ok"
ErrMissing == "ErrMissing"
ErrExisting == "ErrExisting"
ErrInvalidKey == "ErrInvalidKey"
ErrPayloadIDAlreadyExists == "ErrPayloadIDAlreadyExists"
ErrPayloadMissing == "ErrPayloadMissing"
ErrUnknownChangeType == "ErrUnknownChangeType"
ErrStateApply == "ErrStateApply"
ErrBaseApply == "ErrBaseApply"
ErrAuth == "ErrAuth"         \* cipher: message authentication failed, unwrapped
ErrDecode == "ErrDecode"     \* the application's ReadFrom rejects the bytes
ErrReadNonce == "ErrReadNonce" \* block reader: "read nonce: EOF", unwrapped
ErrWrite == "ErrWrite"
\* the error of the operating system under a failed Close or RemoveAll
ErrOS == "ErrOS"       \* the error of the write system call under Flush
ErrUnexpectedEOF == "ErrUnexpectedEOF"   \* io.ErrUnexpectedEOF, wrapped "read entry n"
Panic == "panic"             \* nil interface method call

----------------------------------------------------------------------------
(* Application types: counter base/state and the factory's two changes *)

PayloadIds == {"a", "b"}
\* the bytes of a payload; EmptyData is a reader that yields nothing
EmptyData == ""
PayloadData == {EmptyData, "d1", "d2"}

ChangeCounterInc(v) == [type |-> "counter-inc", value |-> v, payloadID |-> "-"]
ChangeAttachPayload(id) == [type |-> "attach-payload", value |-> 0, payloadID |-> id]
\* a change the factory does not know and the state does not accept
ChangeOther == [type |-> "other", value |-> 0, payloadID |-> "-"]

IncValues == {1, 2}

KnownChanges ==
    {ChangeCounterInc(v) : v \in IncValues} \cup {ChangeAttachPayload(id) : id \in PayloadIds}
Changes == KnownChanges \cup {ChangeOther}

NewChange(typeName) ==
    IF typeName \in {"counter-inc", "attach-payload"} THEN Ok ELSE ErrUnknownChangeType

NewBase == [value |-> 0, payloads |-> {}]

BaseApply(b, c) ==
    CASE c.type = "counter-inc" -> [err |-> Ok, b |-> [b EXCEPT !.value = @ + c.value]]
      [] c.type = "attach-payload" ->
            [err |-> Ok, b |-> [b EXCEPT !.payloads = @ \cup {c.payloadID}]]
      [] OTHER -> [err |-> ErrBaseApply, b |-> b]

NewState(b) == [Counter |-> b.value, Payloads |-> b.payloads]

StateApply(s, c) ==
    CASE c.type = "counter-inc" -> [err |-> Ok, s |-> [s EXCEPT !.Counter = @ + c.value]]
      [] c.type = "attach-payload" ->
            [err |-> Ok, s |-> [s EXCEPT !.Payloads = @ \cup {c.payloadID}]]
      [] OTHER -> [err |-> ErrStateApply, s |-> s]

BasePayloadIDs(b) == b.payloads
ChangePayloadIDs(c) == IF c.type = "attach-payload" THEN {c.payloadID} ELSE {}

----------------------------------------------------------------------------
(* Files.  A file is absent, empty (created, nothing written) or holds     *)
(* data written under a key (NoKey: plaintext).                            *)

Absent == "absent"
Empty == "empty"
Data == "data"

NoBaseFile == [kind |-> Absent, key |-> NoKey, b |-> NewBase]
EmptyBaseFile == [kind |-> Empty, key |-> NoKey, b |-> NewBase]
BaseFile(k, b) == [kind |-> Data, key |-> k, b |-> b]

NoLogFile == [exists |-> FALSE, entries |-> <<>>]
LogFile(entries) == [exists |-> TRUE, entries |-> entries]
\* one framed record: Binary (key = NoKey) or AES-GCM encrypted under key;
\* body is the plaintext | name_len | name | change.WriteTo |
LogRecord(k, body) == [key |-> k, body |-> body]

NoPayloadFile == [kind |-> Absent, key |-> NoKey, data |-> "-"]
PayloadFile(k, d) == [kind |-> Data, key |-> k, data |-> d]

NoMeta == "none"
Metas == {NoMeta, "m1"}

EmptyDir ==
    [meta |-> NoMeta, base |-> NoBaseFile, log |-> NoLogFile,
     newBase |-> NoBaseFile, newLog |-> NoLogFile,
     payload |-> [id \in PayloadIds |-> NoPayloadFile]]

----------------------------------------------------------------------------
(* Change codec: writeChange / readChange *)

ChangeWriteTo(c) ==
    CASE c.type = "counter-inc" -> [field |-> "value", num |-> c.value, str |-> "-"]
      [] c.type = "attach-payload" -> [field |-> "payloadID", num |-> 0, str |-> c.payloadID]
      [] OTHER -> [field |-> "-", num |-> 0, str |-> "-"]

ChangeReadFrom(typeName, json) ==
    CASE typeName = "counter-inc" ->
            ChangeCounterInc(IF json.field = "value" THEN json.num ELSE 0)
      [] typeName = "attach-payload" ->
            ChangeAttachPayload(IF json.field = "payloadID" THEN json.str ELSE "-")
      [] OTHER -> ChangeOther

writeChange(c) == [name |-> c.type, json |-> ChangeWriteTo(c)]

readChange(body) ==
    IF NewChange(body.name) # Ok
    THEN [err |-> ErrUnknownChangeType, c |-> ChangeOther]
    ELSE [err |-> Ok, c |-> ChangeReadFrom(body.name, body.json)]

\* the body of a record of which only a part reached the file: the type name
\* or the JSON document ends early
TornBody == [name |-> "-torn-", json |-> [field |-> "-", num |-> 0, str |-> "-"]]

\* mutant: the log is rewritten from its start instead of appended to
WriteEntryTruncating(entries, key, body) == <<LogRecord(key, body)>>

\* LogWriter.WriteEntry of the plain writer, or of the crypto wrapper when the
\* handle has a key
WriteEntry(entries, key, body) == Append(entries, LogRecord(key, body))

\* entry.Reader() followed by readChange: the plain reader hands out the body
\* as stored, the crypto wrapper opens it with the handle's key whatever the
\* record's type tag is
ReadEntry(rec, key) ==
    IF rec.body = TornBody
    THEN [err |-> IF key = NoKey THEN ErrUnexpectedEOF ELSE ErrInvalidKey, c |-> ChangeOther]
    ELSE IF key = NoKey
    THEN IF rec.key = NoKey THEN readChange(rec.body)
         ELSE [err |-> ErrDecode, c |-> ChangeOther]
    ELSE IF rec.key = key THEN readChange(rec.body)
         ELSE [err |-> ErrInvalidKey, c |-> ChangeOther]

\* WrapBlockReader + base.ReadFrom
ReadBase(file, key) ==
    CASE file.kind = Absent -> [err |-> Ok, b |-> NewBase]
      [] file.kind = Empty -> [err |-> ErrDecode, b |-> NewBase]
      [] file.kind = Data /\ file.key = key -> [err |-> Ok, b |-> file.b]
      [] file.kind = Data /\ file.key # key /\ key = NoKey -> [err |-> ErrDecode, b |-> NewBase]
      [] OTHER -> [err |-> ErrAuth, b |-> NewBase]

----------------------------------------------------------------------------
(* Replay engine (package io) *)

RECURSIVE ReplayLog(_, _, _, _)
ReplayLog(entries, key, state, logLen) ==
    IF entries = <<>>
    THEN [err |-> Ok, state |-> state, logLen |-> logLen]
    ELSE LET r == ReadEntry(Head(entries), key)
             a == StateApply(state, r.c)
         IN  IF r.err # Ok THEN [err |-> r.err, state |-> state, logLen |-> logLen]
             ELSE IF a.err # Ok THEN [err |-> a.err, state |-> state, logLen |-> logLen + 1]
             ELSE ReplayLog(Tail(entries), key, a.s, logLen + 1)

EngineNewDatabase == [base |-> NewBase, state |-> NewState(NewBase), logLen |-> 0]

EngineOpenDatabase(baseFile, logFile, key) ==
    LET rb == ReadBase(baseFile, key)
        rl == ReplayLog(logFile.entries, key, NewState(rb.b), 0)
    IN  IF rb.err # Ok
        THEN [err |-> rb.err, base |-> NewBase, state |-> NewState(NewBase), logLen |-> 0]
        ELSE IF rl.err # Ok
        THEN [err |-> rl.err, base |-> NewBase, state |-> NewState(NewBase), logLen |-> 0]
        ELSE [err |-> Ok, base |-> rb.b, state |-> rl.state, logLen |-> rl.logLen]

\* mutant: the change is written to the log before state.Apply decides
EngineApplyLogFirst(h, entries, c) ==
    LET a == StateApply(h.state, c)
        written == IF h.logW THEN WriteEntry(entries, h.key, writeChange(c)) ELSE entries
    IN  IF a.err # Ok THEN [err |-> a.err, h |-> h, entries |-> written]
        ELSE IF ~h.logW
        THEN [err |-> Panic, h |-> [h EXCEPT !.state = a.s], entries |-> entries]
        ELSE [err |-> Ok, h |-> [h EXCEPT !.state = a.s, !.logLen = @ + 1],
              entries |-> written]

\* mutant: logLen is not incremented
EngineApplyNoCount(h, entries, c) ==
    LET a == StateApply(h.state, c)
    IN  IF a.err # Ok THEN [err |-> a.err, h |-> h, entries |-> entries]
        ELSE IF ~h.logW
        THEN [err |-> Panic, h |-> [h EXCEPT !.state = a.s], entries |-> entries]
        ELSE [err |-> Ok, h |-> [h EXCEPT !.state = a.s],
              entries |-> WriteEntry(entries, h.key, writeChange(c))]

\* Database.Apply under stateMutex: state.Apply, writeChange, logLen++.
\* logW is FALSE for a nil LogWriter: the call on it panics after the state
\* was mutated.
EngineApply(h, entries, c) ==
    LET a == StateApply(h.state, c)
    IN  IF a.err # Ok THEN [err |-> a.err, h |-> h, entries |-> entries]
        ELSE IF ~h.logW
        THEN [err |-> Panic, h |-> [h EXCEPT !.state = a.s], entries |-> entries]
        ELSE [err |-> Ok,
              h |-> [h EXCEPT !.state = a.s, !.logLen = @ + 1],
              entries |-> WriteEntry(entries, h.key, writeChange(c))]

----------------------------------------------------------------------------
(* Filesystem database (package file) *)

NoHandle ==
    [open |-> FALSE, key |-> NoKey, meta |-> NoMeta, base |-> NewBase,
     state |-> NewState(NewBase), logLen |-> 0, logW |-> FALSE]

CreateDatabase(dir, key, meta) ==
    LET dir1 == IF meta # NoMeta THEN [dir EXCEPT !.meta = meta] ELSE dir
        e == EngineNewDatabase
    IN  IF meta # NoMeta /\ dir.meta # NoMeta
        THEN [err |-> ErrExisting, dir |-> dir, h |-> NoHandle]
        ELSE IF dir1.log.exists
        THEN [err |-> ErrExisting, dir |-> dir1, h |-> NoHandle]
        ELSE [err |-> Ok,
              dir |-> [dir1 EXCEPT !.log = LogFile(<<>>)],
              h |-> [open |-> TRUE, key |-> key, meta |-> meta, base |-> e.base,
                     state |-> e.state, logLen |-> e.logLen, logW |-> TRUE]]

\* mutant: the handle is returned although the replay failed
OpenDatabasePartial(dir, key) ==
    LET e == EngineOpenDatabase(dir.base, dir.log, key)
    IN  [err |-> e.err,
         h |-> [open |-> TRUE, key |-> key, meta |-> dir.meta, base |-> e.base,
                state |-> e.state, logLen |-> e.logLen, logW |-> dir.log.exists]]

OpenDatabase(dir, key) ==
    LET e == EngineOpenDatabase(dir.base, dir.log, key)
    IN  IF dir.base.kind = Absent /\ ~dir.log.exists
        THEN [err |-> ErrMissing, h |-> NoHandle]
        ELSE IF e.err # Ok
        THEN [err |-> e.err, h |-> NoHandle]
        ELSE [err |-> Ok,
              h |-> [open |-> TRUE, key |-> key, meta |-> dir.meta, base |-> e.base,
                     state |-> e.state, logLen |-> e.logLen, logW |-> dir.log.exists]]

\* what a payload file holds after io.Copy into the file (NoKey) or into a
\* BlockWriter: the nonce goes out with the first Write, so a payload of no
\* bytes leaves a file of no bytes whatever the key
BlockWrite(key, data) ==
    IF key = NoKey \/ data = EmptyData THEN PayloadFile(NoKey, data)
    ELSE PayloadFile(key, data)

\* reading a file to its end through a BlockReader
BlockRead(file, key) ==
    IF file.key = NoKey /\ file.data = EmptyData
    THEN [err |-> ErrReadNonce, data |-> EmptyData]
    ELSE IF file.key = key THEN [err |-> Ok, data |-> file.data]
    ELSE [err |-> ErrAuth, data |-> EmptyData]

\* os.OpenFile with O_CREATE|O_EXCL fails with os.IsExist
payloadExistsNever(files, id) == FALSE
payloadExists(files, id) == files[id].kind # Absent

\* the payload loop of Database.Apply: payloads is a sequence of [id, data]
RECURSIVE WritePayloads(_, _, _)
WritePayloads(files, key, payloads) ==
    IF payloads = <<>> THEN [err |-> Ok, files |-> files]
    ELSE LET p == Head(payloads)
         IN  IF payloadExists(files, p.id)
             THEN [err |-> ErrPayloadIDAlreadyExists, files |-> files]
             ELSE WritePayloads([files EXCEPT ![p.id] = BlockWrite(key, p.data)],
                                key, Tail(payloads))

Apply(dir, h, c, payloads) ==
    LET w == WritePayloads(dir.payload, h.key, payloads)
        dir1 == [dir EXCEPT !.payload = w.files]
        a == EngineApply(h, dir.log.entries, c)
    IN  IF w.err # Ok THEN [err |-> w.err, dir |-> dir1, h |-> h]
        ELSE [err |-> a.err,
              dir |-> [dir1 EXCEPT !.log.entries = a.entries],
              h |-> a.h]

\* Database.OpenPayload followed by reading the stream to its end; bytes is
\* what the caller holds then (Cipher: bytes sealed under a key, read raw)
Cipher(file) == <<"sealed", file.key, file.data>>
OpenPayload(dir, h, id) ==
    LET f == dir.payload[id]
        r == BlockRead(f, h.key)
    IN  IF f.kind = Absent THEN [err |-> ErrPayloadMissing, bytes |-> EmptyData]
        ELSE IF h.key = NoKey
        THEN [err |-> Ok, bytes |-> IF f.key = NoKey THEN f.data ELSE Cipher(f)]
        ELSE [err |-> r.err, bytes |-> r.data]

\* Database.StatPayload: the error of os.Stat on the payload file
StatPayload(dir, id) ==
    IF dir.payload[id].kind = Absent THEN ErrPayloadMissing ELSE Ok

----------------------------------------------------------------------------
(* Splice compactor *)

\* RebaseChangeSelectFunc: CountRebaseChangeSelectFunc(count) is logIndex < count
CountRebaseChangeSelectFunc(count) == [kind |-> "count", count |-> count]
Selectors == {CountRebaseChangeSelectFunc(k) : k \in 0..MaxLog}

\* a selector of the caller's that selects the first count entries and
\* returns an error for the entry after them
FailingRebaseChangeSelectFunc(count) == [kind |-> "fail", count |-> count]
FailingSelectors == {FailingRebaseChangeSelectFunc(k) : k \in 0..(MaxLog - 1)}
ErrSelector == "ErrSelector"

rebaseChangeSelectFn(sel, c, logIndex) ==
    IF sel.kind = "fail" /\ logIndex = sel.count
    THEN [err |-> ErrSelector, v |-> FALSE]
    ELSE [err |-> Ok, v |-> logIndex < sel.count]

\* the state the closure of io.SpliceDatabase carries from entry to entry
SpliceStart(base) ==
    [err |-> Ok, base |-> base, rebase |-> TRUE, baseWritten |-> FALSE, logIndex |-> 0,
     newBase |-> EmptyBaseFile, newLog |-> <<>>, ids |-> {}, rebased |-> 0,
     calls |-> <<>>]

\* base.WriteTo(baseW) and baseOrChangeWrittenFn(base)
SpliceWriteBase(st, dstKey) ==
    [st EXCEPT !.newBase = BaseFile(dstKey, st.base),
               !.ids = @ \cup BasePayloadIDs(st.base),
               !.baseWritten = TRUE]

\* mutant: the change is put in front of the new log
SpliceWriteChangeFront(st, dstKey, c) ==
    [st EXCEPT !.newLog = WriteEntry(<<>>, dstKey, writeChange(c)) \o @,
               !.ids = @ \cup ChangePayloadIDs(c)]

\* writeChange(logW, change) and baseOrChangeWrittenFn(change)
SpliceWriteChange(st, dstKey, c) ==
    [st EXCEPT !.newLog = WriteEntry(@, dstKey, writeChange(c)),
               !.ids = @ \cup ChangePayloadIDs(c)]

\* mutant: the rebase case ends without fallthrough, so the entry the
\* selector first refuses is neither rebased nor written
SpliceEntryNoFallthrough(st, rec, srcKey, dstKey, sel) ==
    LET r == ReadEntry(rec, srcKey)
        s == rebaseChangeSelectFn(sel, r.c, st.logIndex)
        a == BaseApply(st.base, r.c)
    IN  IF r.err # Ok THEN [st EXCEPT !.err = r.err]
        ELSE IF st.rebase
        THEN IF s.v /\ a.err = Ok
             THEN [st EXCEPT !.base = a.b, !.rebased = @ + 1, !.logIndex = @ + 1,
                             !.calls = Append(@, <<st.logIndex, s.v>>)]
             ELSE [st EXCEPT !.rebase = FALSE, !.logIndex = @ + 1,
                             !.calls = Append(@, <<st.logIndex, s.v>>)]
        ELSE IF ~st.baseWritten
        THEN [SpliceWriteChange(SpliceWriteBase(st, dstKey), dstKey, r.c)
                  EXCEPT !.logIndex = @ + 1]
        ELSE [SpliceWriteChange(st, dstKey, r.c) EXCEPT !.logIndex = @ + 1]

\* one call of the closure: the switch with its two fallthroughs
SpliceEntry(st, rec, srcKey, dstKey, sel) ==
    LET r == ReadEntry(rec, srcKey)
        s == rebaseChangeSelectFn(sel, r.c, st.logIndex)
        a == BaseApply(st.base, r.c)
    IN  IF r.err # Ok THEN [st EXCEPT !.err = r.err]
        ELSE IF st.rebase
        THEN IF s.err # Ok
             THEN [st EXCEPT !.err = s.err, !.calls = Append(@, <<st.logIndex, s.v>>)]
             ELSE IF s.v
             THEN IF a.err # Ok
                  THEN [st EXCEPT !.err = a.err, !.rebase = s.v,
                                  !.calls = Append(@, <<st.logIndex, s.v>>)]
                  ELSE [st EXCEPT !.base = a.b, !.rebase = s.v,
                                  !.rebased = @ + 1, !.logIndex = @ + 1,
                                  !.calls = Append(@, <<st.logIndex, s.v>>)]
             ELSE [SpliceWriteChange(SpliceWriteBase(st, dstKey), dstKey, r.c)
                       EXCEPT !.rebase = s.v, !.logIndex = @ + 1,
                              !.calls = Append(@, <<st.logIndex, s.v>>)]
        ELSE IF ~st.baseWritten
        THEN [SpliceWriteChange(SpliceWriteBase(st, dstKey), dstKey, r.c)
                  EXCEPT !.logIndex = @ + 1]
        ELSE [SpliceWriteChange(st, dstKey, r.c) EXCEPT !.logIndex = @ + 1]

RECURSIVE SpliceEntries(_, _, _, _, _)
SpliceEntries(st, entries, srcKey, dstKey, sel) ==
    IF entries = <<>> \/ st.err # Ok THEN st
    ELSE SpliceEntries(SpliceEntry(st, Head(entries), srcKey, dstKey, sel),
                       Tail(entries), srcKey, dstKey, sel)

\* io.SpliceDatabase
EngineSpliceDatabase(baseFile, logFile, srcKey, dstKey, sel) ==
    LET rb == ReadBase(baseFile, srcKey)
        st == SpliceEntries(SpliceStart(rb.b), logFile.entries, srcKey, dstKey, sel)
    IN  IF rb.err # Ok THEN [SpliceStart(NewBase) EXCEPT !.err = rb.err]
        ELSE IF st.err # Ok THEN st
        ELSE IF ~st.baseWritten THEN SpliceWriteBase(st, dstKey)
        ELSE st

\* mutant: the test of stringsContain is inverted
deleteReferencedPayloads(files, ids) ==
    [id \in PayloadIds |-> IF id \notin ids THEN files[id] ELSE NoPayloadFile]

deleteUnreferencedPayloads(files, ids) ==
    [id \in PayloadIds |-> IF id \in ids THEN files[id] ELSE NoPayloadFile]

\* mutant: the new base and log are written under the source key
SpliceDatabaseKeepsKey(dir, srcKey, dstKey, sel) ==
    LET st == EngineSpliceDatabase(dir.base, dir.log, srcKey, srcKey, sel)
    IN  IF dir.newBase.kind # Absent
        THEN [err |-> ErrExisting, dir |-> dir, st |-> st]
        ELSE IF dir.newLog.exists
        THEN [err |-> ErrExisting, dir |-> [dir EXCEPT !.newBase = EmptyBaseFile], st |-> st]
        ELSE IF st.err # Ok
        THEN [err |-> st.err,
              dir |-> [dir EXCEPT !.newBase = st.newBase, !.newLog = LogFile(st.newLog)],
              st |-> st]
        ELSE [err |-> Ok,
              dir |-> [dir EXCEPT !.base = st.newBase, !.log = LogFile(st.newLog),
                                  !.newBase = NoBaseFile, !.newLog = NoLogFile,
                                  !.payload = deleteUnreferencedPayloads(@, st.ids)],
              st |-> st]

\* mutant: the payload files are collected although the engine's splice failed
SpliceDatabaseCollectsOnError(dir, srcKey, dstKey, sel) ==
    LET st == EngineSpliceDatabase(dir.base, dir.log, srcKey, dstKey, sel)
    IN  IF dir.newBase.kind # Absent
        THEN [err |-> ErrExisting, dir |-> dir, st |-> st]
        ELSE IF dir.newLog.exists
        THEN [err |-> ErrExisting, dir |-> [dir EXCEPT !.newBase = EmptyBaseFile], st |-> st]
        ELSE IF st.err # Ok
        THEN [err |-> st.err,
              dir |-> [dir EXCEPT !.newBase = st.newBase, !.newLog = LogFile(st.newLog),
                                  !.payload = deleteUnreferencedPayloads(@, st.ids)],
              st |-> st]
        ELSE [err |-> Ok,
              dir |-> [dir EXCEPT !.base = st.newBase, !.log = LogFile(st.newLog),
                                  !.newBase = NoBaseFile, !.newLog = NoLogFile,
                                  !.payload = deleteUnreferencedPayloads(@, st.ids)],
              st |-> st]

\* file.SpliceDatabase: create base.new and log.new, run the engine's splice,
\* delete the unreferenced payloads, rename base.new and log.new over base and log
SpliceDatabase(dir, srcKey, dstKey, sel) ==
    LET st == EngineSpliceDatabase(dir.base, dir.log, srcKey, dstKey, sel)
    IN  IF dir.newBase.kind # Absent
        THEN [err |-> ErrExisting, dir |-> dir, st |-> st]
        ELSE IF dir.newLog.exists
        THEN [err |-> ErrExisting, dir |-> [dir EXCEPT !.newBase = EmptyBaseFile], st |-> st]
        ELSE IF st.err # Ok
        THEN [err |-> st.err,
              dir |-> [dir EXCEPT !.newBase = st.newBase, !.newLog = LogFile(st.newLog)],
              st |-> st]
        ELSE [err |-> Ok,
              dir |-> [dir EXCEPT !.base = st.newBase, !.log = LogFile(st.newLog),
                                  !.newBase = NoBaseFile, !.newLog = NoLogFile,
                                  !.payload = deleteUnreferencedPayloads(@, st.ids)],
              st |-> st]

\* file.SpliceDatabase cut short by the end of the process after base.new
\* and log.new were written and before os.Rename(newBasePath, basePath):
\* before deleteUnreferencedPayloads, before os.Remove(basePath), or after it
InterruptPoints == {"written", "payloads-deleted", "base-removed"}

SpliceDatabaseInterrupted(dir, srcKey, dstKey, sel, at) ==
    LET st == EngineSpliceDatabase(dir.base, dir.log, srcKey, dstKey, sel)
        written == [dir EXCEPT !.newBase = st.newBase, !.newLog = LogFile(st.newLog)]
        deleted == [written EXCEPT !.payload = deleteUnreferencedPayloads(@, st.ids)]
    IN  CASE at = "written" -> written
          [] at = "payloads-deleted" -> deleted
          [] OTHER -> [deleted EXCEPT !.base = NoBaseFile]

\* io.ReadLogLen over the raw file: one count per record read, to EOF
RECURSIVE CountEntries(_, _)
CountEntries(entries, logIndex) ==
    IF entries = <<>> THEN logIndex ELSE CountEntries(Tail(entries), logIndex + 1)

\* file.ReadLogLen: a missing file counts as 0
ReadLogLen(logFile) == IF ~logFile.exists THEN 0 ELSE CountEntries(logFile.entries, 0)

----------------------------------------------------------------------------
(* The directory and its handle as a state machine *)

\* rebased: changes a splice folded into the base; deleted: payload files it removed
Outcome(op, err) == [op |-> op, err |-> err, rebased |-> 0, deleted |-> 0]

\* fresh: the directory held no base when it was created with key; applied:
\* the changes whose apply returned success since then
NoHist == [fresh |-> FALSE, key |-> NoKey, applied |-> <<>>]

\* directories found before the first call: any of base and log may be
\* missing; a base as the tests seed it; a log of at most one
\* record, possibly of a type the factory does not know
InitBaseFiles(k) == {NoBaseFile, BaseFile(k, [value |-> 1, payloads |-> {}])}

\* the changes the callers of Spec apply: no payload files are written there
CoreChanges == {ChangeCounterInc(v) : v \in IncValues} \cup {ChangeAttachPayload("a"), ChangeOther}

InitLogFiles(k) ==
    {NoLogFile, LogFile(<<>>)}
        \cup {LogFile(<<LogRecord(k, writeChange(c))>>) : c \in CoreChanges}

\* no engine callers, no deck: the other two machines stand still
NoProc == "-"
EngineOff ==
    /\ engine = <<>> /\ stateMutex = <<>> /\ procs = <<>>
    /\ applyOrder = <<>> /\ returned = 0
DeckOff ==
    /\ dirs = <<>> /\ databases = <<>> /\ databasesMutex = NoProc
    /\ deckEntries = <<>> /\ callers = <<>> /\ deckLast = Ok /\ deckCalls = 0
NoRead == [index |-> 0, key |-> NoKey, type |-> "-", err |-> Ok, body |-> "-"]
LogOff ==
    /\ logBuffer = <<>> /\ logKey = NoKey /\ logPlain = <<>> /\ logRead = NoRead
CodecOff ==
    /\ blockW = <<>> /\ blockOut = <<>> /\ blockPlain = <<>> /\ blockRead = <<>>
    /\ frameLog = <<>> /\ frameTail = 0 /\ frameR = <<>> /\ frameGot = <<>>
BlockOff ==
    /\ blockW = <<>> /\ blockOut = <<>> /\ blockPlain = <<>> /\ blockRead = <<>>
FrameOff ==
    /\ frameLog = <<>> /\ frameTail = 0 /\ frameR = <<>> /\ frameGot = <<>>

InitDirs ==
    UNION {{[EmptyDir EXCEPT !.base = b, !.log = l] :
                b \in InitBaseFiles(k), l \in InitLogFiles(k)} : k \in Keys}

DBInit ==
    /\ fs \in InitDirs
    /\ db = NoHandle
    /\ last = Outcome("none", Ok)
    /\ hist = NoHist
    /\ EngineOff /\ DeckOff /\ LogOff /\ CodecOff

Create(key, meta) ==
    LET r == CreateDatabase(fs, key, meta)
    IN  /\ ~db.open
        /\ fs' = r.dir
        /\ db' = r.h
        /\ last' = Outcome("create", r.err)
        /\ hist' = IF r.err = Ok
                   THEN [fresh |-> fs.base.kind = Absent, key |-> key, applied |-> <<>>]
                   ELSE hist

Open(key) ==
    LET r == OpenDatabase(fs, key)
    IN  /\ ~db.open
        /\ db' = r.h
        /\ last' = Outcome("open", r.err)
        /\ hist' = IF r.err = Ok /\ key # hist.key THEN NoHist ELSE hist
        /\ UNCHANGED fs

\* a panic ends the process: the handle is gone, the directory stays
DatabaseApply(c, payloads) ==
    LET r == Apply(fs, db, c, payloads)
    IN  /\ db.open
        /\ Len(fs.log.entries) < MaxLog
        /\ db.state.Counter + c.value <= MaxCounter
        /\ fs' = r.dir
        /\ db' = IF r.err = Panic THEN NoHandle ELSE r.h
        /\ last' = Outcome("apply", r.err)
        /\ hist' = IF r.err = Ok THEN [hist EXCEPT !.applied = Append(@, c)] ELSE hist

Close ==
    /\ db.open
    /\ db' = NoHandle
    /\ last' = Outcome("close", Ok)
    /\ UNCHANGED <<fs, hist>>

\* splice runs on a directory no handle is open on (the deck closes the
\* cached handle first)
Splice(srcKey, dstKey, sel) ==
    LET r == SpliceDatabase(fs, srcKey, dstKey, sel)
    IN  /\ ~db.open
        /\ fs' = r.dir
        /\ last' = [Outcome("splice", r.err) EXCEPT
                        !.rebased = r.st.rebased,
                        !.deleted = Cardinality({id \in PayloadIds :
                                        fs.payload[id] # fs'.payload[id]})]
        /\ hist' = IF r.err = Ok THEN NoHist ELSE hist
        /\ UNCHANGED db

\* a splice that ends with the process between the writing of base.new and
\* log.new and the first rename
SpliceInterrupted(srcKey, dstKey, sel, at) ==
    /\ ~db.open
    /\ SpliceDatabase(fs, srcKey, dstKey, sel).err = Ok
    /\ fs' = SpliceDatabaseInterrupted(fs, srcKey, dstKey, sel, at)
    /\ last' = Outcome("splice-interrupted", Ok)
    /\ hist' = NoHist
    /\ UNCHANGED db

\* what a write that fails leaves in the file: nothing, a part of the
\* record, or the whole record but its last byte (the newline that ends the
\* JSON document)
Tails == {"none", "torn", "short"}

FailedWrite(entries, key, body, tail) ==
    CASE tail = "none" -> entries
      [] tail = "short" /\ key = NoKey -> Append(entries, LogRecord(key, body))
      [] OTHER -> Append(entries, LogRecord(key, TornBody))

WithLost(h, tail) ==
    [fresh |-> h.fresh, key |-> h.key, applied |-> h.applied,
     lost |-> (IF "lost" \in DOMAIN h THEN h.lost ELSE {}) \cup {tail}]

\* the bufio.Writer of the log writer keeps its first error: bufErr marks a
\* handle whose writer failed
WithBufErr(h) ==
    [open |-> h.open, key |-> h.key, meta |-> h.meta, base |-> h.base, state |-> h.state,
     logLen |-> h.logLen, logW |-> h.logW, bufErr |-> TRUE]

\* Database.Apply whose state.Apply succeeds and whose Flush fails
ApplyWriteFails(c, tail) ==
    LET a == StateApply(db.state, c)
    IN  /\ db.open /\ db.logW /\ "bufErr" \notin DOMAIN db
        /\ Len(fs.log.entries) < MaxLog
        /\ db.state.Counter + c.value <= MaxCounter
        /\ a.err = Ok
        /\ fs' = [fs EXCEPT !.log.entries = FailedWrite(@, db.key, writeChange(c), tail)]
        /\ db' = WithBufErr([db EXCEPT !.state = a.s])
        /\ last' = Outcome("apply", ErrWrite)
        /\ hist' = WithLost(hist, tail)

\* Database.Apply on a handle whose writer failed before: state.Apply runs,
\* the writer returns its error again
ApplyOnFailedWriter(c) ==
    LET a == StateApply(db.state, c)
    IN  /\ db.open /\ "bufErr" \in DOMAIN db
        /\ db.state.Counter + c.value <= MaxCounter
        /\ db' = IF a.err = Ok THEN [db EXCEPT !.state = a.s] ELSE db
        /\ last' = Outcome("apply", IF a.err = Ok THEN ErrWrite ELSE a.err)
        /\ UNCHANGED <<fs, hist>>

DBNext ==
    \/ \E key \in Keys : Create(key, NoMeta)
         /\ UNCHANGED <<engineVars, deckVars, logVars, codecVars>>
    \/ \E key \in Keys : Open(key)
         /\ UNCHANGED <<engineVars, deckVars, logVars, codecVars>>
    \/ \E c \in CoreChanges : DatabaseApply(c, <<>>)
         /\ UNCHANGED <<engineVars, deckVars, logVars, codecVars>>
    \/ Close
         /\ UNCHANGED <<engineVars, deckVars, logVars, codecVars>>
    \/ \E srcKey \in Keys, dstKey \in Keys, sel \in Selectors : Splice(srcKey, dstKey, sel)
         /\ UNCHANGED <<engineVars, deckVars, logVars, codecVars>>

Spec == DBInit /\ [][DBNext]_vars

----------------------------------------------------------------------------
(* The same directory with payload files: apply writes them, splice        *)
(* deletes the unreferenced ones.                                          *)

PayloadChanges == {ChangeCounterInc(1)} \cup {ChangeAttachPayload(id) : id \in PayloadIds}

PayloadLists ==
    UNION {[1..n -> [id : PayloadIds, data : PayloadData]] : n \in 0..MaxPayloads}

PayloadInit ==
    /\ fs \in {EmptyDir, [EmptyDir EXCEPT !.log = LogFile(<<>>)],
               [EmptyDir EXCEPT !.base = BaseFile(NoKey, [value |-> 1, payloads |-> {"a"}])]}
    /\ db = NoHandle
    /\ last = Outcome("none", Ok)
    /\ hist = NoHist
    /\ EngineOff /\ DeckOff /\ LogOff /\ CodecOff

PayloadNext ==
    \/ Create(NoKey, NoMeta)
         /\ UNCHANGED <<engineVars, deckVars, logVars, codecVars>>
    \/ Open(NoKey)
         /\ UNCHANGED <<engineVars, deckVars, logVars, codecVars>>
    \/ \E c \in PayloadChanges, payloads \in PayloadLists : DatabaseApply(c, payloads)
         /\ UNCHANGED <<engineVars, deckVars, logVars, codecVars>>
    \/ Close
         /\ UNCHANGED <<engineVars, deckVars, logVars, codecVars>>
    \/ \E sel \in Selectors : Splice(NoKey, NoKey, sel)
         /\ UNCHANGED <<engineVars, deckVars, logVars, codecVars>>

SpecPayload == PayloadInit /\ [][PayloadNext]_vars

\* payload files under either key: a directory created with a key, written
\* to and read through that handle, closed and opened again
KeyedPayloadInit ==
    /\ fs = EmptyDir
    /\ db = NoHandle
    /\ last = Outcome("none", Ok)
    /\ hist = NoHist
    /\ EngineOff /\ DeckOff /\ LogOff /\ CodecOff

KeyedPayloadNext ==
    \/ \E key \in Keys : Create(key, NoMeta)
         /\ UNCHANGED <<engineVars, deckVars, logVars, codecVars>>
    \/ \E key \in Keys : Open(key)
         /\ UNCHANGED <<engineVars, deckVars, logVars, codecVars>>
    \/ \E id \in PayloadIds, payloads \in PayloadLists :
            DatabaseApply(ChangeAttachPayload(id), payloads)
         /\ UNCHANGED <<engineVars, deckVars, logVars, codecVars>>
    \/ Close
         /\ UNCHANGED <<engineVars, deckVars, logVars, codecVars>>

SpecKeyedPayload == KeyedPayloadInit /\ [][KeyedPayloadNext]_vars

\* the same with splices from either key to either key; every attached
\* payload comes with its bytes
PayloadSpliceNext ==
    \/ \E key \in Keys : Create(key, NoMeta)
         /\ UNCHANGED <<engineVars, deckVars, logVars, codecVars>>
    \/ \E key \in Keys : Open(key)
         /\ UNCHANGED <<engineVars, deckVars, logVars, codecVars>>
    \/ \E id \in PayloadIds :
            DatabaseApply(ChangeAttachPayload(id), <<[id |-> id, data |-> "d1"]>>)
         /\ UNCHANGED <<engineVars, deckVars, logVars, codecVars>>
    \/ Close
         /\ UNCHANGED <<engineVars, deckVars, logVars, codecVars>>
    \/ \E srcKey \in Keys, dstKey \in Keys, sel \in Selectors : Splice(srcKey, dstKey, sel)
         /\ UNCHANGED <<engineVars, deckVars, logVars, codecVars>>

SpecPayloadSplice == KeyedPayloadInit /\ [][PayloadSpliceNext]_vars

\* directories with or without a meta file, created with or without the
\* meta option (WithCreateMeta)
MetaInit ==
    /\ fs \in {[d EXCEPT !.meta = m] : d \in InitDirs, m \in Metas}
    /\ db = NoHandle
    /\ last = Outcome("none", Ok)
    /\ hist = NoHist
    /\ EngineOff /\ DeckOff /\ LogOff /\ CodecOff

MetaNext ==
    \/ \E key \in Keys, meta \in Metas : Create(key, meta)
         /\ UNCHANGED <<engineVars, deckVars, logVars, codecVars>>
    \/ \E key \in Keys : Open(key)
         /\ UNCHANGED <<engineVars, deckVars, logVars, codecVars>>
    \/ \E c \in CoreChanges : DatabaseApply(c, <<>>)
         /\ UNCHANGED <<engineVars, deckVars, logVars, codecVars>>
    \/ Close
         /\ UNCHANGED <<engineVars, deckVars, logVars, codecVars>>

SpecMeta == MetaInit /\ [][MetaNext]_vars

\* directories whose log holds up to MaxLog records, any of them possibly of
\* a type the factory does not know (a log another program wrote to)
ReplayLogFiles(k) ==
    {LogFile(q) : q \in UNION {[1..n -> {LogRecord(k, writeChange(c)) : c \in CoreChanges}] :
                                 n \in 0..MaxLog}}

ReplayInit ==
    /\ fs \in UNION {{[EmptyDir EXCEPT !.base = b, !.log = l] :
                        b \in InitBaseFiles(k), l \in ReplayLogFiles(k)} : k \in Keys}
    /\ db = NoHandle
    /\ last = Outcome("none", Ok)
    /\ hist = NoHist
    /\ EngineOff /\ DeckOff /\ LogOff /\ CodecOff

ReplayNext ==
    \/ \E key \in Keys : Open(key)
         /\ UNCHANGED <<engineVars, deckVars, logVars, codecVars>>
    \/ \E c \in CoreChanges : DatabaseApply(c, <<>>)
         /\ UNCHANGED <<engineVars, deckVars, logVars, codecVars>>
    \/ Close
         /\ UNCHANGED <<engineVars, deckVars, logVars, codecVars>>

SpecReplay == ReplayInit /\ [][ReplayNext]_vars

\* splice over every pair of source and target key, with selectors that
\* count and selectors that fail, on directories whose log holds up to
\* MaxLog records
SpliceKeys == {NoKey} \cup {"k1", "k2"}

\* a missing log, or a log of up to MaxLog changes the factory knows
SpliceChanges == {ChangeCounterInc(1), ChangeAttachPayload("a")}
SpliceLogFiles(k) ==
    {NoLogFile} \cup
    {LogFile(q) : q \in UNION {[1..n -> {LogRecord(k, writeChange(c)) : c \in SpliceChanges}] :
                                 n \in 0..MaxLog}}

SpliceInit ==
    /\ fs \in UNION {{[EmptyDir EXCEPT !.base = b, !.log = l] :
                        b \in InitBaseFiles(k), l \in SpliceLogFiles(k)} : k \in SpliceKeys}
    /\ db = NoHandle
    /\ last = Outcome("none", Ok)
    /\ hist = NoHist
    /\ EngineOff /\ DeckOff /\ LogOff /\ CodecOff

SpliceNext ==
    \/ \E srcKey \in SpliceKeys, dstKey \in SpliceKeys, sel \in Selectors \cup FailingSelectors :
            Splice(srcKey, dstKey, sel)
         /\ UNCHANGED <<engineVars, deckVars, logVars, codecVars>>
    \/ \E key \in SpliceKeys : Open(key)
         /\ UNCHANGED <<engineVars, deckVars, logVars, codecVars>>
    \/ Close
         /\ UNCHANGED <<engineVars, deckVars, logVars, codecVars>>

SpecSplice == SpliceInit /\ [][SpliceNext]_vars

\* splices that end with the process before the first rename, and the opens
\* that follow them
InterruptInit ==
    /\ fs \in UNION {{[EmptyDir EXCEPT !.base = b, !.log = l] :
                        b \in InitBaseFiles(k), l \in SpliceLogFiles(k)} : k \in Keys}
    /\ db = NoHandle
    /\ last = Outcome("none", Ok)
    /\ hist = NoHist
    /\ EngineOff /\ DeckOff /\ LogOff /\ CodecOff

InterruptNext ==
    \/ \E srcKey \in Keys, dstKey \in Keys, sel \in Selectors, at \in InterruptPoints :
            SpliceInterrupted(srcKey, dstKey, sel, at)
         /\ UNCHANGED <<engineVars, deckVars, logVars, codecVars>>
    \/ \E key \in Keys : Open(key)
         /\ UNCHANGED <<engineVars, deckVars, logVars, codecVars>>
    \/ Close
         /\ UNCHANGED <<engineVars, deckVars, logVars, codecVars>>

SpecInterrupt == InterruptInit /\ [][InterruptNext]_vars

\* splices that fail: directories that hold a payload file, a log with
\* entries of an unknown type, or the temporary files of an earlier splice
FailLogFiles(k) ==
    {NoLogFile} \cup
    {LogFile(q) : q \in UNION {[1..n -> {LogRecord(k, writeChange(c)) :
                        c \in {ChangeCounterInc(1), ChangeAttachPayload("a"), ChangeOther}}] :
                                 n \in 0..MaxLog}}

FailPayloads(k) ==
    {[id \in PayloadIds |-> NoPayloadFile],
     [id \in PayloadIds |-> IF id = "a" THEN BlockWrite(k, "d1") ELSE NoPayloadFile]}

FailInit ==
    /\ fs \in UNION {{[EmptyDir EXCEPT !.base = b, !.log = l, !.payload = p,
                                         !.newBase = nb, !.newLog = nl] :
                        b \in InitBaseFiles(k), l \in FailLogFiles(k), p \in FailPayloads(k),
                        nb \in {NoBaseFile, EmptyBaseFile}, nl \in {NoLogFile, LogFile(<<>>)}} :
                      k \in Keys}
    /\ db = NoHandle
    /\ last = Outcome("none", Ok)
    /\ hist = NoHist
    /\ EngineOff /\ DeckOff /\ LogOff /\ CodecOff

FailNext ==
    \/ \E srcKey \in Keys, dstKey \in Keys, sel \in Selectors \cup FailingSelectors :
            Splice(srcKey, dstKey, sel)
         /\ UNCHANGED <<engineVars, deckVars, logVars, codecVars>>
    \/ \E key \in Keys : Open(key)
         /\ UNCHANGED <<engineVars, deckVars, logVars, codecVars>>
    \/ Close
         /\ UNCHANGED <<engineVars, deckVars, logVars, codecVars>>

SpecSpliceFail == FailInit /\ [][FailNext]_vars

\* applies whose log write fails, on databases created in an empty directory
WriteFailInit ==
    /\ fs = EmptyDir
    /\ db = NoHandle
    /\ last = Outcome("none", Ok)
    /\ hist = NoHist
    /\ EngineOff /\ DeckOff /\ LogOff /\ CodecOff

WriteFailNext ==
    \/ \E key \in Keys : Create(key, NoMeta)
         /\ UNCHANGED <<engineVars, deckVars, logVars, codecVars>>
    \/ \E key \in Keys : Open(key)
         /\ UNCHANGED <<engineVars, deckVars, logVars, codecVars>>
    \/ \E c \in CoreChanges : DatabaseApply(c, <<>>) /\ "bufErr" \notin DOMAIN db
         /\ UNCHANGED <<engineVars, deckVars, logVars, codecVars>>
    \/ \E c \in CoreChanges, tail \in Tails : ApplyWriteFails(c, tail)
         /\ UNCHANGED <<engineVars, deckVars, logVars, codecVars>>
    \/ \E c \in CoreChanges : ApplyOnFailedWriter(c)
         /\ UNCHANGED <<engineVars, deckVars, logVars, codecVars>>
    \/ Close
         /\ UNCHANGED <<engineVars, deckVars, logVars, codecVars>>

SpecWriteFail == WriteFailInit /\ [][WriteFailNext]_vars

\* encrypted directories: base and log written under one of two keys, opened
\* with that key, with the other one or with none
CryptKeys == {"k1", "k2"}

CryptInit ==
    /\ fs \in UNION {{[EmptyDir EXCEPT !.base = b, !.log = l] :
                        b \in InitBaseFiles(k), l \in InitLogFiles(k)} : k \in CryptKeys}
    /\ db = NoHandle
    /\ last = Outcome("none", Ok)
    /\ hist = NoHist
    /\ EngineOff /\ DeckOff /\ LogOff /\ CodecOff

CryptNext ==
    \/ \E key \in CryptKeys : Create(key, NoMeta)
         /\ UNCHANGED <<engineVars, deckVars, logVars, codecVars>>
    \/ \E key \in CryptKeys \cup {NoKey} : Open(key)
         /\ UNCHANGED <<engineVars, deckVars, logVars, codecVars>>
    \/ \E c \in CoreChanges : DatabaseApply(c, <<>>)
         /\ UNCHANGED <<engineVars, deckVars, logVars, codecVars>>
    \/ Close
         /\ UNCHANGED <<engineVars, deckVars, logVars, codecVars>>

SpecCrypt == CryptInit /\ [][CryptNext]_vars

----------------------------------------------------------------------------
(* One engine handle under concurrent callers.  Database.Apply runs step   *)
(* by step under stateMutex.Lock; a state read (State.FetchAll) runs       *)
(* under the RLocker the engine handed to the state.                       *)

MaxApplies == 3      \* most Apply calls that get through state.Apply

Writers == {"w1", "w2"}
Readers == {"r1", "r2"}

NoChange == [type |-> "-", value |-> 0, payloadID |-> "-"]
Idle == [at |-> "idle", c |-> NoChange, floor |-> 0, seen |-> NewState(NewBase)]

\* sync.RWMutex: Lock waits for the writer and all readers to leave
\* mutant: Lock does not wait for another writer
CanLockBesideWriter(m) == m.readers = {}

CanLock(m) == m.writer = NoProc /\ m.readers = {}

\* mutant: RLock does not wait for the writer
CanRLockBesideWriter(m) == TRUE

CanRLock(m) == m.writer = NoProc

EngineInit ==
    /\ \E key \in Keys :
          engine = [key |-> key, base |-> EngineNewDatabase.base,
                    state |-> EngineNewDatabase.state,
                    logLen |-> EngineNewDatabase.logLen, log |-> <<>>]
    /\ stateMutex = [writer |-> NoProc, readers |-> {}]
    /\ procs = [p \in Writers \cup Readers |-> Idle]
    /\ applyOrder = <<>>
    /\ returned = 0
    /\ fs = EmptyDir /\ db = NoHandle /\ last = Outcome("none", Ok) /\ hist = NoHist
    /\ DeckOff /\ LogOff /\ CodecOff

\* a caller enters Database.Apply(c)
ApplyCall(w, c) ==
    /\ procs[w].at = "idle"
    /\ Len(applyOrder) + Cardinality({v \in Writers : procs[v].at # "idle"}) < MaxApplies
    /\ procs' = [procs EXCEPT ![w] = [Idle EXCEPT !.at = "lock", !.c = c]]
    /\ UNCHANGED <<engine, stateMutex, applyOrder, returned>>

\* db.stateMutex.Lock()
ApplyLock(w) ==
    /\ procs[w].at = "lock"
    /\ CanLock(stateMutex)
    /\ stateMutex' = [stateMutex EXCEPT !.writer = w]
    /\ procs' = [procs EXCEPT ![w].at = "apply"]
    /\ UNCHANGED <<engine, applyOrder, returned>>

\* db.state.Apply(c); its error returns through the deferred Unlock
ApplyState(w) ==
    LET a == StateApply(engine.state, procs[w].c)
    IN  /\ procs[w].at = "apply"
        /\ IF a.err # Ok
           THEN /\ procs' = [procs EXCEPT ![w].at = "unlock-err"]
                /\ UNCHANGED <<engine, applyOrder>>
           ELSE /\ engine' = [engine EXCEPT !.state = a.s]
                /\ applyOrder' = Append(applyOrder, procs[w].c)
                /\ procs' = [procs EXCEPT ![w].at = "write"]
        /\ UNCHANGED <<stateMutex, returned>>

\* writeChange(db.logW, c)
ApplyWrite(w) ==
    /\ procs[w].at = "write"
    /\ engine' = [engine EXCEPT
                    !.log = WriteEntry(@, engine.key, writeChange(procs[w].c))]
    /\ procs' = [procs EXCEPT ![w].at = "count"]
    /\ UNCHANGED <<stateMutex, applyOrder, returned>>

\* db.logLen++
ApplyCount(w) ==
    /\ procs[w].at = "count"
    /\ engine' = [engine EXCEPT !.logLen = @ + 1]
    /\ procs' = [procs EXCEPT ![w].at = "unlock"]
    /\ UNCHANGED <<stateMutex, applyOrder, returned>>

\* the deferred db.stateMutex.Unlock(), then the return
ApplyUnlock(w) ==
    /\ procs[w].at \in {"unlock", "unlock-err"}
    /\ stateMutex' = [stateMutex EXCEPT !.writer = NoProc]
    /\ returned' = IF procs[w].at = "unlock" THEN returned + 1 ELSE returned
    /\ procs' = [procs EXCEPT ![w] = Idle]
    /\ UNCHANGED <<engine, applyOrder>>

\* a caller enters a state read; floor remembers the applies returned so far
ReadCall(r) ==
    /\ procs[r].at = "idle"
    /\ procs' = [procs EXCEPT ![r] = [Idle EXCEPT !.at = "rlock", !.floor = returned]]
    /\ UNCHANGED <<engine, stateMutex, applyOrder, returned>>

\* s.readLocker.Lock()
ReadRLock(r) ==
    /\ procs[r].at = "rlock"
    /\ CanRLock(stateMutex)
    /\ stateMutex' = [stateMutex EXCEPT !.readers = @ \cup {r}]
    /\ procs' = [procs EXCEPT ![r].at = "read"]
    /\ UNCHANGED <<engine, applyOrder, returned>>

\* the read itself
ReadState(r) ==
    /\ procs[r].at = "read"
    /\ procs' = [procs EXCEPT ![r].at = "runlock", ![r].seen = engine.state]
    /\ UNCHANGED <<engine, stateMutex, applyOrder, returned>>

\* s.readLocker.Unlock(), then the return
ReadRUnlock(r) ==
    /\ procs[r].at = "runlock"
    /\ stateMutex' = [stateMutex EXCEPT !.readers = @ \ {r}]
    /\ procs' = [procs EXCEPT ![r] = Idle]
    /\ UNCHANGED <<engine, applyOrder, returned>>

EngineNext ==
    \/ \E w \in Writers, c \in CoreChanges : ApplyCall(w, c)
         /\ UNCHANGED <<dbVars, deckVars, logVars, codecVars>>
    \/ \E w \in Writers : ApplyLock(w)
         /\ UNCHANGED <<dbVars, deckVars, logVars, codecVars>>
    \/ \E w \in Writers : ApplyState(w)
         /\ UNCHANGED <<dbVars, deckVars, logVars, codecVars>>
    \/ \E w \in Writers : ApplyWrite(w)
         /\ UNCHANGED <<dbVars, deckVars, logVars, codecVars>>
    \/ \E w \in Writers : ApplyCount(w)
         /\ UNCHANGED <<dbVars, deckVars, logVars, codecVars>>
    \/ \E w \in Writers : ApplyUnlock(w)
         /\ UNCHANGED <<dbVars, deckVars, logVars, codecVars>>
    \/ \E r \in Readers : ReadCall(r)
         /\ UNCHANGED <<dbVars, deckVars, logVars, codecVars>>
    \/ \E r \in Readers : ReadRLock(r)
         /\ UNCHANGED <<dbVars, deckVars, logVars, codecVars>>
    \/ \E r \in Readers : ReadState(r)
         /\ UNCHANGED <<dbVars, deckVars, logVars, codecVars>>
    \/ \E r \in Readers : ReadRUnlock(r)
         /\ UNCHANGED <<dbVars, deckVars, logVars, codecVars>>

SpecEngine == EngineInit /\ [][EngineNext]_vars

----------------------------------------------------------------------------
(* The deck: an LRU of entries {db, dbMutex} keyed by path, under          *)
(* databasesMutex.  Deck.Open is three steps: the call, the part under     *)
(* databasesMutex up to entry.dbMutex.Lock(), and the acquisition of       *)
(* dbMutex (which releases databasesMutex).  WithOpen is Open, fn, then    *)
(* the unlock.                                                             *)

MaxLimit == 2        \* largest openDatabaseLimit of a deck
MaxEntries == 3      \* most entries a deck makes in one behaviour
MaxWrites == 3       \* most Write calls on one block writer
MaxCalls == 3        \* most calls the deck gets in one behaviour

Paths == {"p", "q"}
Callers == {"a", "b", "c"}

NoCall == [at |-> "idle", path |-> "-", key |-> NoKey, entry |-> 0]

Without(s, i) == SubSeq(s, 1, i - 1) \o SubSeq(s, i + 1, Len(s))

\* position of path in the cache items, 0 if it is not cached
lruIndex(cache, path) ==
    IF \E i \in 1..Len(cache.items) : cache.items[i].path = path
    THEN CHOOSE i \in 1..Len(cache.items) : cache.items[i].path = path
    ELSE 0

\* mutant: the lookup never finds the path
lruGetMiss(cache, path) == [ok |-> FALSE, entry |-> 0, cache |-> cache]

\* Cache.Get: the value, and the item moves to the front
lruGet(cache, path) ==
    LET i == lruIndex(cache, path)
    IN  IF i = 0 THEN [ok |-> FALSE, entry |-> 0, cache |-> cache]
        ELSE [ok |-> TRUE, entry |-> cache.items[i].entry,
              cache |-> [cache EXCEPT !.items = <<cache.items[i]>> \o Without(@, i)]]

\* Cache.Add: an existing key gets the new value and moves to the front; a
\* new key is pushed to the front and, over size, the oldest item is dropped
\* (the deck registers no eviction callback)
lruAdd(cache, path, e) ==
    LET i == lruIndex(cache, path)
        item == [path |-> path, entry |-> e]
        pushed == <<item>> \o cache.items
    IN  IF i # 0 THEN [cache EXCEPT !.items = <<item>> \o Without(@, i)]
        ELSE IF Len(pushed) > cache.size
        THEN [cache EXCEPT !.items = SubSeq(pushed, 1, Len(pushed) - 1)]
        ELSE [cache EXCEPT !.items = pushed]

\* mutant: the options carry no key function
deriveKeyNil(key, meta) == NoKey

\* deriveKey with a StaticKeyFunc option: the key of the options
deriveKey(key, meta) == key

DeckDirs ==
    {EmptyDir, [EmptyDir EXCEPT !.log = LogFile(<<>>)],
     [EmptyDir EXCEPT !.base = BaseFile(NoKey, [value |-> 1, payloads |-> {}])]}

DeckInit ==
    /\ dirs \in {d \in [Paths -> DeckDirs] : d["q"] = [EmptyDir EXCEPT !.log = LogFile(<<>>)]}
    /\ \E limit \in 1..MaxLimit : databases = [size |-> limit, items |-> <<>>]
    /\ databasesMutex = NoProc
    /\ deckEntries = <<>>
    /\ callers = [x \in Callers |-> NoCall]
    /\ deckLast = Ok
    /\ deckCalls = 0
    /\ fs = EmptyDir /\ db = NoHandle /\ last = Outcome("none", Ok) /\ hist = NoHist
    /\ EngineOff /\ LogOff /\ CodecOff

\* a caller enters a deck method
Enter(x) ==
    /\ callers[x].at = "idle"
    /\ deckCalls < MaxCalls
    /\ deckCalls' = deckCalls + 1

\* Deck.Create: one critical section of databasesMutex
DeckCreate(x, path, key) ==
    LET r == CreateDatabase(dirs[path], key, NoMeta)
        new == Len(deckEntries) + 1
    IN  /\ Enter(x)
        /\ databasesMutex = NoProc
        /\ dirs' = [dirs EXCEPT ![path] = r.dir]
        /\ IF r.err # Ok
           THEN UNCHANGED <<databases, deckEntries>>
           ELSE /\ new <= MaxEntries
                /\ deckEntries' = Append(deckEntries,
                                    [path |-> path, db |-> r.h, dbMutex |-> NoProc])
                /\ databases' = lruAdd(databases, path, new)
        /\ deckLast' = r.err
        /\ UNCHANGED <<databasesMutex, callers>>

\* a caller enters Deck.Open(path, opts) while databasesMutex is held:
\* databasesMutex.Lock() blocks
DeckOpenCall(x, path, key) ==
    /\ Enter(x)
    /\ databasesMutex # NoProc
    /\ callers' = [callers EXCEPT
            ![x] = [at |-> "open", path |-> path, key |-> key, entry |-> 0]]
    /\ UNCHANGED <<dirs, databases, databasesMutex, deckEntries, deckLast>>

\* Deck.Open from databasesMutex.Lock() (of a caller entering, or of one
\* that was blocked in it) up to entry.dbMutex.Lock(): an error
\* returns with databasesMutex released, otherwise the caller goes on to
\* wait for dbMutex with databasesMutex held
DeckOpen(x, path, key) ==
    LET g == lruGet(databases, path)
        r == OpenDatabase(dirs[path], key)
        new == Len(deckEntries) + 1
        e == IF g.ok THEN g.entry ELSE new
        held == IF g.ok THEN deckEntries[g.entry].db ELSE r.h
    IN  /\ \/ Enter(x)
           \/ /\ callers[x] = [at |-> "open", path |-> path, key |-> key, entry |-> 0]
              /\ UNCHANGED deckCalls
        /\ databasesMutex = NoProc
        /\ IF ~g.ok /\ r.err # Ok
           THEN /\ callers' = [callers EXCEPT ![x] = NoCall]
                /\ deckLast' = r.err
                /\ UNCHANGED <<dirs, databases, databasesMutex, deckEntries>>
           ELSE /\ g.ok \/ new <= MaxEntries
                /\ deckEntries' =
                      IF g.ok THEN deckEntries
                      ELSE Append(deckEntries,
                                  [path |-> path, db |-> r.h, dbMutex |-> NoProc])
                /\ databases' = IF g.ok THEN g.cache ELSE lruAdd(databases, path, new)
                /\ IF held.key # deriveKey(key, held.meta)
                   THEN /\ callers' = [callers EXCEPT ![x] = NoCall]
                        /\ deckLast' = ErrInvalidKey
                        /\ UNCHANGED databasesMutex
                   ELSE /\ databasesMutex' = x
                        /\ callers' = [callers EXCEPT
                                ![x] = [at |-> "dbMutex", path |-> path, key |-> key,
                                        entry |-> e]]
                        /\ UNCHANGED deckLast
                /\ UNCHANGED dirs

\* entry.dbMutex.Lock() succeeds, databasesMutex.Unlock(), Open returns the
\* handle and the unlock function: the caller holds a borrow
DeckLockEntry(x) ==
    /\ callers[x].at = "dbMutex"
    /\ deckEntries[callers[x].entry].dbMutex = NoProc
    /\ deckEntries' = [deckEntries EXCEPT ![callers[x].entry].dbMutex = x]
    /\ databasesMutex' = NoProc
    /\ callers' = [callers EXCEPT ![x].at = "borrowed"]
    /\ deckLast' = Ok
    /\ UNCHANGED <<dirs, databases, deckCalls>>

\* the unlock function: entry.dbMutex.Unlock()
DeckUnlock(x) ==
    /\ callers[x].at = "borrowed"
    /\ deckEntries' = [deckEntries EXCEPT ![callers[x].entry].dbMutex = NoProc]
    /\ callers' = [callers EXCEPT ![x] = NoCall]
    /\ UNCHANGED <<dirs, databases, databasesMutex, deckLast, deckCalls>>

\* mutant: the per-entry lock is not waited for
dbMutexIgnored(e) == TRUE

\* entry.dbMutex.Lock() of Close, Delete and Splice can succeed
dbMutexFree(e) == deckEntries[e].dbMutex = NoProc

\* entry.db.Close()
CloseEntry(es, e) == [es EXCEPT ![e].db.open = FALSE]

\* Cache.RemoveOldest / Cache.Remove
lruRemoveOldest(cache) == [cache EXCEPT !.items = SubSeq(@, 1, Len(@) - 1)]
lruRemove(cache, path) ==
    IF lruIndex(cache, path) = 0 THEN cache
    ELSE [cache EXCEPT !.items = Without(@, lruIndex(cache, path))]

\* Deck.Close: databasesMutex.Lock(), RemoveOldest; an empty cache returns
DeckClose(x) ==
    /\ Enter(x)
    /\ databasesMutex = NoProc
    /\ IF databases.items = <<>>
       THEN /\ deckLast' = Ok
            /\ UNCHANGED <<databases, databasesMutex, callers>>
       ELSE /\ databases' = lruRemoveOldest(databases)
            /\ databasesMutex' = x
            /\ callers' = [callers EXCEPT
                    ![x] = [at |-> "closing", path |-> "-", key |-> NoKey,
                            entry |-> databases.items[Len(databases.items)].entry]]
            /\ UNCHANGED deckLast
    /\ UNCHANGED <<dirs, deckEntries>>

\* Deck.Close: entry.dbMutex.Lock(), Close, Unlock, then the next
\* RemoveOldest or the return
DeckCloseEntry(x) ==
    /\ callers[x].at = "closing"
    /\ dbMutexFree(callers[x].entry)
    /\ deckEntries' = CloseEntry(deckEntries, callers[x].entry)
    /\ IF databases.items = <<>>
       THEN /\ databasesMutex' = NoProc
            /\ callers' = [callers EXCEPT ![x] = NoCall]
            /\ deckLast' = Ok
            /\ UNCHANGED databases
       ELSE /\ databases' = lruRemoveOldest(databases)
            /\ callers' = [callers EXCEPT
                    ![x].entry = databases.items[Len(databases.items)].entry]
            /\ UNCHANGED <<databasesMutex, deckLast>>
    /\ UNCHANGED <<dirs, deckCalls>>

\* Deck.Delete: databasesMutex.Lock(), Get; a path that is not cached is
\* removed at once
DeckDelete(x, path) ==
    LET g == lruGet(databases, path)
    IN  /\ Enter(x)
        /\ databasesMutex = NoProc
        /\ IF g.ok
           THEN /\ databases' = g.cache
                /\ databasesMutex' = x
                /\ callers' = [callers EXCEPT
                        ![x] = [at |-> "deleting", path |-> path, key |-> NoKey,
                                entry |-> g.entry]]
                /\ UNCHANGED <<dirs, deckLast>>
           ELSE /\ dirs' = [dirs EXCEPT ![path] = EmptyDir]
                /\ deckLast' = Ok
                /\ UNCHANGED <<databases, databasesMutex, callers>>
        /\ UNCHANGED deckEntries

\* Deck.Delete: entry.dbMutex.Lock(), Close, Unlock, os.RemoveAll, Remove
DeckDeleteEntry(x) ==
    /\ callers[x].at = "deleting"
    /\ dbMutexFree(callers[x].entry)
    /\ deckEntries' = CloseEntry(deckEntries, callers[x].entry)
    /\ dirs' = [dirs EXCEPT ![callers[x].path] = EmptyDir]
    /\ databases' = lruRemove(databases, callers[x].path)
    /\ databasesMutex' = NoProc
    /\ callers' = [callers EXCEPT ![x] = NoCall]
    /\ deckLast' = Ok
    /\ UNCHANGED deckCalls

\* the splice the deck's callers ask for: WithSourceKey(key) and
\* WithRebaseChangeCount(1), no target key
DeckSpliceDatabase(dir, key) ==
    SpliceDatabase(dir, key, NoKey, CountRebaseChangeSelectFunc(1))

\* Deck.Splice: databasesMutex.Lock(), Get; a path that is not cached is
\* spliced at once
DeckSplice(x, path, key) ==
    LET g == lruGet(databases, path)
        r == DeckSpliceDatabase(dirs[path], key)
    IN  /\ Enter(x)
        /\ databasesMutex = NoProc
        /\ IF g.ok
           THEN /\ databases' = g.cache
                /\ databasesMutex' = x
                /\ callers' = [callers EXCEPT
                        ![x] = [at |-> "splicing", path |-> path, key |-> key,
                                entry |-> g.entry]]
                /\ UNCHANGED <<dirs, deckLast>>
           ELSE /\ dirs' = [dirs EXCEPT ![path] = r.dir]
                /\ deckLast' = r.err
                /\ UNCHANGED <<databases, databasesMutex, callers>>
        /\ UNCHANGED deckEntries

\* Deck.Splice: entry.dbMutex.Lock(), Close, Unlock, Remove, SpliceDatabase
DeckSpliceEntry(x) ==
    LET r == DeckSpliceDatabase(dirs[callers[x].path], callers[x].key)
    IN  /\ callers[x].at = "splicing"
        /\ dbMutexFree(callers[x].entry)
        /\ deckEntries' = CloseEntry(deckEntries, callers[x].entry)
        /\ databases' = lruRemove(databases, callers[x].path)
        /\ dirs' = [dirs EXCEPT ![callers[x].path] = r.dir]
        /\ databasesMutex' = NoProc
        /\ callers' = [callers EXCEPT ![x] = NoCall]
        /\ deckLast' = r.err
        /\ UNCHANGED deckCalls

\* the steps of Delete that can fail: entry.db.Close() and os.RemoveAll
DeleteSteps == {"close", "remove"}

\* Deck.Delete where entry.db.Close() or os.RemoveAll(path) returns an
\* error: the log file of the entry is closed either way (os.File.Close
\* releases the descriptor also when it reports an error), the method
\* returns before databases.Remove(path)
DeckDeleteEntryFails(x, step) ==
    /\ callers[x].at = "deleting"
    /\ dbMutexFree(callers[x].entry)
    /\ deckEntries' = CloseEntry(deckEntries, callers[x].entry)
    /\ databasesMutex' = NoProc
    /\ callers' = [callers EXCEPT ![x] = NoCall]
    /\ deckLast' = ErrOS
    /\ UNCHANGED <<dirs, databases, deckCalls>>

\* Deck.Close where entry.db.Close() returns an error: the entry was taken
\* out by RemoveOldest before, the loop ends with the rest still cached
DeckCloseEntryFails(x) ==
    /\ callers[x].at = "closing"
    /\ dbMutexFree(callers[x].entry)
    /\ deckEntries' = CloseEntry(deckEntries, callers[x].entry)
    /\ databasesMutex' = NoProc
    /\ callers' = [callers EXCEPT ![x] = NoCall]
    /\ deckLast' = ErrOS
    /\ UNCHANGED <<dirs, databases, deckCalls>>

\* Deck.Splice where e.db.Close() returns an error: the method returns
\* before databases.Remove(path) and before SpliceDatabase
DeckSpliceEntryFails(x) ==
    /\ callers[x].at = "splicing"
    /\ dbMutexFree(callers[x].entry)
    /\ deckEntries' = CloseEntry(deckEntries, callers[x].entry)
    /\ databasesMutex' = NoProc
    /\ callers' = [callers EXCEPT ![x] = NoCall]
    /\ deckLast' = ErrOS
    /\ UNCHANGED <<dirs, databases, deckCalls>>

DeckNext ==
    \/ \E x \in Callers, path \in Paths, key \in Keys : DeckCreate(x, path, key)
         /\ UNCHANGED <<dbVars, engineVars, logVars, codecVars>>
    \/ \E x \in Callers, path \in Paths, key \in Keys : DeckOpenCall(x, path, key)
         /\ UNCHANGED <<dbVars, engineVars, logVars, codecVars>>
    \/ \E x \in Callers, path \in Paths, key \in Keys : DeckOpen(x, path, key)
         /\ UNCHANGED <<dbVars, engineVars, logVars, codecVars>>
    \/ \E x \in Callers : DeckLockEntry(x)
         /\ UNCHANGED <<dbVars, engineVars, logVars, codecVars>>
    \/ \E x \in Callers : DeckUnlock(x)
         /\ UNCHANGED <<dbVars, engineVars, logVars, codecVars>>
    \/ \E x \in Callers : DeckClose(x)
         /\ UNCHANGED <<dbVars, engineVars, logVars, codecVars>>
    \/ \E x \in Callers : DeckCloseEntry(x)
         /\ UNCHANGED <<dbVars, engineVars, logVars, codecVars>>
    \/ \E x \in Callers, path \in Paths : DeckDelete(x, path)
         /\ UNCHANGED <<dbVars, engineVars, logVars, codecVars>>
    \/ \E x \in Callers : DeckDeleteEntry(x)
         /\ UNCHANGED <<dbVars, engineVars, logVars, codecVars>>
    \/ \E x \in Callers, path \in Paths, key \in Keys : DeckSplice(x, path, key)
         /\ UNCHANGED <<dbVars, engineVars, logVars, codecVars>>
    \/ \E x \in Callers : DeckSpliceEntry(x)
         /\ UNCHANGED <<dbVars, engineVars, logVars, codecVars>>

SpecDeck == DeckInit /\ [][DeckNext]_vars

\* the deck where Close of a database and RemoveAll of a directory can fail
DeckFailNext ==
    \/ DeckNext
    \/ \E x \in Callers, step \in DeleteSteps : DeckDeleteEntryFails(x, step)
         /\ UNCHANGED <<dbVars, engineVars, logVars, codecVars>>
    \/ \E x \in Callers : DeckCloseEntryFails(x)
         /\ UNCHANGED <<dbVars, engineVars, logVars, codecVars>>
    \/ \E x \in Callers : DeckSpliceEntryFails(x)
         /\ UNCHANGED <<dbVars, engineVars, logVars, codecVars>>

SpecDeckFail == DeckInit /\ [][DeckFailNext]_vars

\* the same deck where no call starves: a goroutine whose Lock() can succeed
\* again and again gets the mutex (sync.Mutex hands a starving waiter the
\* lock), and the Close, Delete or Splice that holds databasesMutex goes on
\* once the entry's lock is free (nobody can take it meanwhile).  A borrow may be held for ever (no
\* fairness on DeckUnlock), and nobody has to call the deck.
DeckFairness ==
    /\ \A x \in Callers :
        /\ SF_vars(\E path \in Paths, key \in Keys :
                      /\ callers[x].at = "open"
                      /\ DeckOpen(x, path, key)
                      /\ UNCHANGED <<dbVars, engineVars, logVars, codecVars>>)
        /\ SF_vars(DeckLockEntry(x) /\ UNCHANGED <<dbVars, engineVars, logVars, codecVars>>)
    /\ WF_vars(\E x \in Callers :
                  /\ DeckCloseEntry(x) \/ DeckDeleteEntry(x) \/ DeckSpliceEntry(x)
                  /\ UNCHANGED <<dbVars, engineVars, logVars, codecVars>>)

SpecDeckFair == DeckInit /\ [][DeckNext]_vars /\ DeckFairness

----------------------------------------------------------------------------
(* The per-entry encrypting log writer and decrypting log reader (package  *)
(* crypto) over one log buffer.  AES-GCM is symbolic: a ciphertext opens   *)
(* under the key and the nonce it was sealed with, and under no other.     *)

LogEntryTypeBinary == "Binary"
LogEntryTypeAESGCMEncrypted == "AESGCMEncrypted"

\* plaintext bodies handed to WriteEntry, and the values the nonce source
\* returns (FixedNonceFn returns the same one every time)
LogBodies == {EmptyData, "test", "test2"}
Nonces == {"n1", "n2"}

gcmSeal(key, nonce, plainText) ==
    [sealedWith |-> key, nonce |-> nonce, plainText |-> plainText]

\* mutant: the tag is not checked against the key
gcmOpenAnyKey(key, nonce, cipherText) ==
    [err |-> Ok, plainText |-> cipherText.plainText]
gcmOpen(key, nonce, cipherText) ==
    IF cipherText.sealedWith = key /\ cipherText.nonce = nonce
    THEN [err |-> Ok, plainText |-> cipherText.plainText]
    ELSE [err |-> ErrAuth, plainText |-> EmptyData]

\* the plain writer below: one framed entry | type+size | data |
BufferWriteEntry(buffer, et, data) == Append(buffer, [type |-> et, data |-> data])

\* crypto.LogWriter.WriteEntry: the entry type handed in is dropped, the
\* data is nonce || ciphertext
CryptoWriteEntry(buffer, key, nonce, et, plainText) ==
    BufferWriteEntry(buffer, LogEntryTypeAESGCMEncrypted,
                     [nonce |-> nonce, cipherText |-> gcmSeal(key, nonce, plainText)])

\* crypto.logEntry.Type and Reader on one entry the plain reader handed out
CryptoEntryType(entry) == LogEntryTypeBinary
CryptoEntryReader(entry, key) ==
    LET o == gcmOpen(key, entry.data.nonce, entry.data.cipherText)
    IN  IF o.err # Ok THEN [err |-> ErrInvalidKey, body |-> EmptyData]
        ELSE [err |-> Ok, body |-> o.plainText]

\* a crypto.LogReader over the whole buffer, read entry by entry to its end
CryptoReadAll(buffer, key) ==
    [i \in 1..Len(buffer) |->
        [type |-> CryptoEntryType(buffer[i]),
         err |-> CryptoEntryReader(buffer[i], key).err,
         body |-> CryptoEntryReader(buffer[i], key).body]]

LogInit ==
    /\ logBuffer = <<>>
    /\ logKey \in CryptKeys
    /\ logPlain = <<>>
    /\ logRead = NoRead
    /\ fs = EmptyDir /\ db = NoHandle /\ last = Outcome("none", Ok) /\ hist = NoHist
    /\ EngineOff /\ DeckOff /\ CodecOff

LogWriteEntry(plainText, nonce) ==
    /\ Len(logBuffer) < MaxLog
    /\ logBuffer' = CryptoWriteEntry(logBuffer, logKey, nonce, LogEntryTypeBinary, plainText)
    /\ logPlain' = Append(logPlain, plainText)
    /\ UNCHANGED <<logKey, logRead>>

\* a reader made with key that is handed entry i and nothing else
LogReadEntry(i, key) ==
    LET r == CryptoEntryReader(logBuffer[i], key)
    IN  /\ i \in 1..Len(logBuffer)
        /\ logRead' = [index |-> i, key |-> key, type |-> CryptoEntryType(logBuffer[i]),
                        err |-> r.err, body |-> r.body]
        /\ UNCHANGED <<logBuffer, logKey, logPlain>>

LogNext ==
    \/ \E plainText \in LogBodies, nonce \in Nonces : LogWriteEntry(plainText, nonce)
         /\ UNCHANGED <<dbVars, engineVars, deckVars, codecVars>>
    \/ \E i \in 1..MaxLog, key \in CryptKeys : LogReadEntry(i, key)
         /\ UNCHANGED <<dbVars, engineVars, deckVars, codecVars>>

SpecLog == LogInit /\ [][LogNext]_vars

----------------------------------------------------------------------------
(* The block writer and reader (base and payload files).  Plaintext is     *)
(* kept by position and length only; lengths are true byte counts, the     *)
(* length field of a block is 16 bits wide.                                *)

BlockSize == 4096
NonceSize == 12
TagSize == 16
Uint16 == 65536

\* lengths handed to one Write call: nothing, a byte, around one block,
\* two blocks, the chunk io.Copy hands on, more than a length field holds
ChunkSizes == {0, 1, BlockSize, BlockSize + 1, 2 * BlockSize, 32768, 70000}

RECURSIVE SumSeq(_)
SumSeq(q) == IF q = <<>> THEN 0 ELSE Head(q) + SumSeq(Tail(q))

NonceItem == [kind |-> "nonce", ctLen |-> 0, at |-> 0, len |-> 0, key |-> NoKey, nonceIx |-> 0]
\* | ct_len:u16 | ct |, ct sealing the len plaintext bytes from position at
BlockItem(key, nonceIx, at, len) ==
    [kind |-> "block", ctLen |-> (len + TagSize) % Uint16, at |-> at, len |-> len,
     key |-> key, nonceIx |-> nonceIx]

NewBlockWriter(key) ==
    [key |-> key, nonceWritten |-> FALSE, nonceIx |-> 0, bufAt |-> 0, bufLen |-> 0,
     closed |-> FALSE]

\* mutant: the writer seals every block with the initial nonce
BlockWriterWriteKeepsNonce(w, out, n) ==
    LET out1 == IF w.nonceWritten THEN out ELSE Append(out, NonceItem)
        len1 == w.bufLen + n
    IN  IF len1 >= BlockSize
        THEN [w |-> [w EXCEPT !.nonceWritten = TRUE,
                              !.bufAt = @ + BlockSize, !.bufLen = len1 - BlockSize],
              out |-> Append(out1, BlockItem(w.key, w.nonceIx, w.bufAt, BlockSize))]
        ELSE [w |-> [w EXCEPT !.nonceWritten = TRUE, !.bufLen = len1], out |-> out1]

\* BlockWriter.Write with n bytes: [w, out]
BlockWriterWrite(w, out, n) ==
    LET out1 == IF w.nonceWritten THEN out ELSE Append(out, NonceItem)
        len1 == w.bufLen + n
    IN  IF len1 >= BlockSize
        THEN [w |-> [w EXCEPT !.nonceWritten = TRUE, !.nonceIx = @ + 1,
                              !.bufAt = @ + BlockSize, !.bufLen = len1 - BlockSize],
              out |-> Append(out1, BlockItem(w.key, w.nonceIx, w.bufAt, BlockSize))]
        ELSE [w |-> [w EXCEPT !.nonceWritten = TRUE, !.bufLen = len1], out |-> out1]

\* BlockWriter.Close: [w, out]
BlockWriterClose(w, out) ==
    IF w.bufLen > 0
    THEN [w |-> [w EXCEPT !.closed = TRUE, !.bufAt = @ + w.bufLen, !.bufLen = 0],
          out |-> Append(out, BlockItem(w.key, w.nonceIx, w.bufAt, w.bufLen))]
    ELSE [w |-> [w EXCEPT !.closed = TRUE], out |-> out]

\* the bytes of the output
OutLen(out) ==
    SumSeq([i \in 1..Len(out) |->
              IF out[i].kind = "nonce" THEN NonceSize ELSE 2 + out[i].len + TagSize])

\* readBlock on the blocks left, the reader's nonce being the nonceIx-th of
\* the chain and got bytes delivered so far: gcm.Open fails on a ciphertext
\* cut short by its length field, sealed under another key or another nonce
RECURSIVE readBlocks(_, _, _, _)
readBlocks(blocks, key, nonceIx, got) ==
    IF blocks = <<>> THEN [err |-> Ok, len |-> got]
    ELSE LET b == Head(blocks)
         IN  IF \/ b.ctLen # b.len + TagSize
                \/ b.key # key \/ b.nonceIx # nonceIx \/ b.at # got
             THEN [err |-> ErrAuth, len |-> got]
             ELSE readBlocks(Tail(blocks), key, nonceIx + 1, got + b.len)

\* the nonces (as links of the chain from the file's nonce) a reader hands
\* to gcm.Open, block by block, up to the block that does not open:
\* advanceNonce follows every block that opened
RECURSIVE openNonces(_, _, _)
openNonces(blocks, key, nonceIx) ==
    IF blocks = <<>> THEN <<>>
    ELSE IF readBlocks(<<Head(blocks)>>, key, nonceIx, Head(blocks).at).err # Ok
    THEN <<nonceIx>>
    ELSE <<nonceIx>> \o openNonces(Tail(blocks), key, nonceIx + 1)

\* io.ReadAll on a BlockReader over the output
BlockReadAll(out, key) ==
    IF out = <<>> THEN [err |-> ErrReadNonce, len |-> 0]
    ELSE readBlocks(Tail(out), key, 0, 0)

NoBlockRead == [key |-> NoKey, err |-> Ok, len |-> 0]

BlockInit ==
    /\ \E key \in CryptKeys : blockW = NewBlockWriter(key)
    /\ blockOut = <<>>
    /\ blockPlain = <<>>
    /\ blockRead = NoBlockRead
    /\ fs = EmptyDir /\ db = NoHandle /\ last = Outcome("none", Ok) /\ hist = NoHist
    /\ EngineOff /\ DeckOff /\ LogOff /\ FrameOff

WriterWrite(n) ==
    LET r == BlockWriterWrite(blockW, blockOut, n)
    IN  /\ ~blockW.closed
        /\ Len(blockPlain) < MaxWrites
        /\ blockW' = r.w
        /\ blockOut' = r.out
        /\ blockPlain' = Append(blockPlain, n)
        /\ UNCHANGED <<blockRead, frameLog, frameTail, frameR, frameGot>>

WriterClose ==
    LET r == BlockWriterClose(blockW, blockOut)
    IN  /\ ~blockW.closed
        /\ blockW' = r.w
        /\ blockOut' = r.out
        /\ UNCHANGED <<blockPlain, blockRead, frameLog, frameTail, frameR, frameGot>>

ReaderReadAll(key) ==
    LET r == BlockReadAll(blockOut, key)
    IN  /\ blockW.closed
        /\ blockRead' = [key |-> key, err |-> r.err, len |-> r.len]
        /\ UNCHANGED <<blockW, blockOut, blockPlain, frameLog, frameTail, frameR, frameGot>>

BlockNext ==
    \/ \E n \in ChunkSizes : WriterWrite(n)
         /\ UNCHANGED <<dbVars, engineVars, deckVars, logVars>>
    \/ WriterClose
         /\ UNCHANGED <<dbVars, engineVars, deckVars, logVars>>
    \/ \E key \in CryptKeys : ReaderReadAll(key)
         /\ UNCHANGED <<dbVars, engineVars, deckVars, logVars>>

SpecBlock == BlockInit /\ [][BlockNext]_vars

----------------------------------------------------------------------------
(* The plain log codec (package io): logWriter.WriteEntry, logReader and   *)
(* ReadLogEntries over one byte stream.  Bodies are kept by length; the    *)
(* header is 32 bits wide, the top 4 the type, the low 28 the size.        *)

SizeBits == 268435456      \* 2^28: uint32(^LogEntryTypeMask) + 1
HeaderSize == 4
ErrMalformedLog == "ErrMalformedLog"
ErrGarbled == "garbled"    \* a header decoded from bytes that are no header

LogEntryTypes == {LogEntryTypeBinary, LogEntryTypeAESGCMEncrypted}
\* body lengths: none, one byte, the four of the codec's tests, one more
\* than the size field holds
FrameLens == {0, 1, 4, SizeBits + 1}

\* writeEntryHeader + the body: what the stream holds and the count returned
FrameEntry(et, len) ==
    [type |-> et, size |-> len % SizeBits, len |-> len, n |-> HeaderSize + len]

\* the byte offset of the header of entry i (i = Len + 1: the end of the entries)
RECURSIVE OffsetOf(_, _)
OffsetOf(log, i) ==
    IF i <= 1 THEN 0 ELSE OffsetOf(log, i - 1) + HeaderSize + log[i - 1].len

EntryAt(log, pos) == {i \in 1..Len(log) : OffsetOf(log, i) = pos}

NewLogReader == [pos |-> 0, hasLast |-> FALSE, lastSize |-> 0, lastCount |-> 0,
                 done |-> FALSE, err |-> Ok]

\* mutant: the unread rest of the last entry is not skipped
skipNothing(lastSize, lastCount) == 0
\* logReader.ReadEntry: left := lastSize - Count(), Seek(left, io.SeekCurrent)
skipLeft(lastSize, lastCount) == lastSize - lastCount

\* readEntryHeader at byte pos: [err, src, type, size]
readEntryHeader(log, tail, pos) ==
    LET end == OffsetOf(log, Len(log) + 1)
        hit == EntryAt(log, pos)
    IN  IF hit # {}
        THEN LET i == CHOOSE i \in hit : TRUE
             IN  [err |-> Ok, src |-> i, type |-> log[i].type, size |-> log[i].size]
        ELSE IF pos >= end + tail
        THEN [err |-> "EOF", src |-> 0, type |-> "-", size |-> 0]
        ELSE IF pos >= end
        THEN [err |-> ErrUnexpectedEOF, src |-> 0, type |-> "-", size |-> 0]
        ELSE [err |-> ErrGarbled, src |-> 0, type |-> "-", size |-> 0]

FrameInit ==
    /\ frameLog = <<>>
    /\ frameTail = 0
    /\ frameR = NewLogReader
    /\ frameGot = <<>>
    /\ fs = EmptyDir /\ db = NoHandle /\ last = Outcome("none", Ok) /\ hist = NoHist
    /\ EngineOff /\ DeckOff /\ LogOff /\ BlockOff

ReaderFresh == frameR = NewLogReader

\* logWriter.WriteEntry, before any reader is made
FrameWriteEntry(et, len) ==
    /\ ReaderFresh /\ frameTail = 0
    /\ Len(frameLog) < MaxLog
    /\ frameLog' = Append(frameLog, FrameEntry(et, len))
    /\ UNCHANGED <<frameTail, frameR, frameGot>>

\* a crash tears the header of the next entry: k of its 4 bytes reached the file
FrameTear(k) ==
    /\ ReaderFresh /\ frameTail = 0
    /\ frameTail' = k
    /\ UNCHANGED <<frameLog, frameR, frameGot>>

\* one round of the loop of ReadLogEntries: r.ReadEntry(), and the return
\* on io.EOF (nil) or on another error
FrameReadEntry ==
    LET pos == IF frameR.hasLast
               THEN frameR.pos + skipLeft(frameR.lastSize, frameR.lastCount)
               ELSE frameR.pos
        h == readEntryHeader(frameLog, frameTail, pos)
    IN  /\ ~frameR.done
        /\ IF h.err = Ok
           THEN /\ frameR' = [frameR EXCEPT !.pos = pos + HeaderSize, !.hasLast = TRUE,
                                            !.lastSize = h.size, !.lastCount = 0]
                /\ frameGot' = Append(frameGot, [src |-> h.src, type |-> h.type,
                                                 size |-> h.size, read |-> 0])
           ELSE /\ frameR' = [frameR EXCEPT !.pos = pos, !.done = TRUE,
                                            !.err = IF h.err = "EOF" THEN Ok ELSE h.err]
                /\ UNCHANGED frameGot
        /\ UNCHANGED <<frameLog, frameTail>>

\* the consumer reads k more bytes of the entry it was handed
FrameConsume(k) ==
    /\ ~frameR.done /\ frameR.hasLast
    /\ k >= 1 /\ frameR.lastCount + k <= frameR.lastSize
    /\ frameR' = [frameR EXCEPT !.pos = @ + k, !.lastCount = @ + k]
    /\ frameGot' = [frameGot EXCEPT ![Len(frameGot)].read = @ + k]
    /\ UNCHANGED <<frameLog, frameTail>>

FrameNext ==
    \/ \E et \in LogEntryTypes, len \in FrameLens : FrameWriteEntry(et, len)
         /\ UNCHANGED <<dbVars, engineVars, deckVars, logVars, blockW, blockOut, blockPlain, blockRead>>
    \/ \E k \in 1..(HeaderSize - 1) : FrameTear(k)
         /\ UNCHANGED <<dbVars, engineVars, deckVars, logVars, blockW, blockOut, blockPlain, blockRead>>
    \/ FrameReadEntry
         /\ UNCHANGED <<dbVars, engineVars, deckVars, logVars, blockW, blockOut, blockPlain, blockRead>>
    \/ \E k \in {1, frameR.lastSize - frameR.lastCount} : FrameConsume(k)
         /\ UNCHANGED <<dbVars, engineVars, deckVars, logVars, blockW, blockOut, blockPlain, blockRead>>

SpecFrame == FrameInit /\ [][FrameNext]_vars

\* the final record declares more body bytes than the file holds
Truncated ==
    /\ frameLog # <<>>
    /\ frameLog[Len(frameLog)].len < frameLog[Len(frameLog)].size

\* body lengths of the logs that get cut
TornLens == {1, 4}

\* a crash, or a truncation of the file, cuts k bytes off the body of the
\* final record
FrameTruncate(k) ==
    /\ ReaderFresh /\ frameTail = 0
    /\ frameLog # <<>> /\ ~Truncated
    /\ k >= 1 /\ k <= frameLog[Len(frameLog)].len
    /\ frameLog' = [frameLog EXCEPT ![Len(frameLog)].len = @ - k]
    /\ UNCHANGED <<frameTail, frameR, frameGot>>

\* the consumer (readChange, io.ReadFull) asks for the k bytes left of the
\* entry it was handed and the file ends before them: its error ends the
\* loop of ReadLogEntries
FrameConsumeShort(k) ==
    /\ ~frameR.done /\ frameR.hasLast
    /\ k >= 1 /\ frameR.lastCount + k <= frameR.lastSize
    /\ frameR.pos + k > OffsetOf(frameLog, Len(frameLog) + 1)
    /\ frameR' = [frameR EXCEPT !.done = TRUE, !.err = ErrUnexpectedEOF]
    /\ UNCHANGED <<frameLog, frameTail, frameGot>>

\* logs whose final record may be cut, read by a counting consumer
\* (ReadLogLen) or by one that reads the bodies (OpenDatabase)
TornNext ==
    \/ \E et \in LogEntryTypes, len \in TornLens : FrameWriteEntry(et, len) /\ ~Truncated
         /\ UNCHANGED <<dbVars, engineVars, deckVars, logVars, blockW, blockOut, blockPlain, blockRead>>
    \/ \E len \in TornLens : \E k \in 1..len : FrameTruncate(k)
         /\ UNCHANGED <<dbVars, engineVars, deckVars, logVars, blockW, blockOut, blockPlain, blockRead>>
    \/ FrameReadEntry
         /\ UNCHANGED <<dbVars, engineVars, deckVars, logVars, blockW, blockOut, blockPlain, blockRead>>
    \/ \E k \in {1, frameR.lastSize - frameR.lastCount} :
            /\ FrameConsume(k)
            /\ frameR.pos + k <= OffsetOf(frameLog, Len(frameLog) + 1)
         /\ UNCHANGED <<dbVars, engineVars, deckVars, logVars, blockW, blockOut, blockPlain, blockRead>>
    \/ \E k \in {frameR.lastSize - frameR.lastCount} : FrameConsumeShort(k)
         /\ UNCHANGED <<dbVars, engineVars, deckVars, logVars, blockW, blockOut, blockPlain, blockRead>>

SpecTorn == FrameInit /\ [][TornNext]_vars

----------------------------------------------------------------------------
(* Claims about the directory and its handle *)

\* what replaying the directory's base and log yields for a handle's key
Replayed(dir, key) == EngineOpenDatabase(dir.base, dir.log, key)

RECURSIVE ApplyAll(_, _)
ApplyAll(state, changes) ==
    IF changes = <<>> THEN state
    ELSE ApplyAll(StateApply(state, Head(changes)).s, Tail(changes))

\* C1: whatever the directory held before create or open, the handle's State
\* equals the replay of the persisted log on top of the persisted base.
\* CreateDatabase looks at the log only: over a directory holding a base it
\* hands out a fresh State while the base stays on disk.
C1_StateIsReplayOfDirectory ==
    db.open => Replayed(fs, db.key).err = Ok /\ Replayed(fs, db.key).state = db.state

\* C2: n changes applied to a database created in an empty directory, then
\* close and open with the key of the creation: the open succeeds with
\* logLen = n and the State of the n changes applied in order to a fresh State.
C2_ReopenYieldsAppliedChanges ==
    [][\A key \in Keys :
         (Open(key) /\ hist.fresh /\ key = hist.key)
            => /\ last'.err = Ok
               /\ db'.logLen = Len(hist.applied)
               /\ db'.state = ApplyAll(NewState(NewBase), hist.applied)]_dbVars

C2_Witness ==
    /\ last.op = "open" /\ last.err = Ok /\ db.open
    /\ hist.fresh /\ db.key = hist.key
    /\ Len(hist.applied) >= 2 /\ hist.applied[1] # hist.applied[2]

\* C3: a successful splice that rebases the first k changes, k between 0 and
\* the log length, leaves the State that open yields unchanged.
C3_SpliceKeepsOpenedState ==
    [][\A srcKey \in Keys, dstKey \in Keys, sel \in Selectors :
         (/\ Splice(srcKey, dstKey, sel)
          /\ last'.err = Ok
          /\ sel.count <= Len(fs.log.entries)
          /\ OpenDatabase(fs, srcKey).err = Ok)
            => /\ OpenDatabase(fs', dstKey).err = Ok
               /\ OpenDatabase(fs', dstKey).h.state = OpenDatabase(fs, srcKey).h.state]_dbVars

C3_Witness ==
    /\ last.op = "splice" /\ last.err = Ok
    /\ last.rebased >= 1
    /\ Len(fs.log.entries) >= 1
    /\ fs.base.b.value >= 2

\* C4: an apply whose state.Apply fails appends nothing and leaves logLen
\* alone; every step that changes the log under an open handle is one apply
\* whose state.Apply succeeded, appending the one record of its change.
C4_LogEntryIffStateApplied ==
    [][/\ \A c \in CoreChanges :
            (DatabaseApply(c, <<>>) /\ StateApply(db.state, c).err # Ok)
                => fs'.log = fs.log /\ db'.logLen = db.logLen /\ last'.err # Ok
       /\ (db.open /\ fs'.log # fs.log)
            => \E c \in CoreChanges :
                  /\ DatabaseApply(c, <<>>)
                  /\ StateApply(db.state, c).err = Ok
                  /\ fs'.log.entries = Append(fs.log.entries, LogRecord(db.key, writeChange(c)))
                  /\ db'.state = StateApply(db.state, c).s]_dbVars

C4_Witness ==
    /\ last.op = "apply" /\ last.err = ErrStateApply
    /\ db.open /\ db.logLen >= 1

Advertised(dir) ==
    BasePayloadIDs(dir.base.b)
        \cup UNION {ChangePayloadIDs(readChange(dir.log.entries[i].body).c) :
                        i \in 1..Len(dir.log.entries)}

\* C8: after a successful splice every payload file left has an id the new
\* base or a change of the new log advertises, and no payload file with
\* such an id was deleted.
C8_PayloadGC ==
    [][(last'.op = "splice" /\ last'.err = Ok)
         => /\ \A id \in PayloadIds :
                 fs'.payload[id].kind # Absent => id \in Advertised(fs')
            /\ \A id \in Advertised(fs') : fs'.payload[id] = fs.payload[id]]_dbVars

C8_Witness ==
    /\ last.op = "splice" /\ last.err = Ok
    /\ last.deleted >= 1
    /\ \E id \in PayloadIds : fs.payload[id].kind # Absent
    /\ last.rebased >= 1

\* C15: an apply given a payload whose file payload-<id> exists returns
\* ErrPayloadIDAlreadyExists and applies nothing: State, the log file,
\* log_len and the content of the existing payload file stay as they were.
C15_ExistingPayloadIDNotApplied ==
    [][\A c \in PayloadChanges, payloads \in PayloadLists :
          (/\ DatabaseApply(c, payloads)
           /\ \E i \in 1..Len(payloads) : fs.payload[payloads[i].id].kind # Absent)
            => /\ last'.err = ErrPayloadIDAlreadyExists
               /\ db'.open /\ db'.state = db.state /\ db'.logLen = db.logLen
               /\ fs'.log = fs.log
               /\ \A id \in PayloadIds :
                     fs.payload[id].kind # Absent => fs'.payload[id] = fs.payload[id]]_vars

C15_Witness ==
    /\ last.op = "apply" /\ last.err = ErrPayloadIDAlreadyExists
    /\ db.open /\ db.logLen >= 1 /\ db.state.Counter >= 1
    /\ \E id \in PayloadIds : fs.payload[id] = PayloadFile(NoKey, "d1")

\* C16: after an apply that returned success, open_payload(i) yields exactly
\* the bytes supplied under id i, on a plaintext and on an encrypted database;
\* for an id with no payload file open_payload and stat_payload return
\* ErrPayloadMissing.
C16_OpenPayloadReturnsSupplied ==
    [][/\ \A id \in PayloadIds :
            (db'.open /\ fs'.payload[id].kind = Absent)
              => /\ OpenPayload(fs', db', id).err = ErrPayloadMissing
                 /\ StatPayload(fs', id) = ErrPayloadMissing
       /\ \A id \in PayloadIds, payloads \in PayloadLists :
            (DatabaseApply(ChangeAttachPayload(id), payloads) /\ last'.err = Ok)
              => \A i \in 1..Len(payloads) :
                    OpenPayload(fs', db', payloads[i].id)
                        = [err |-> Ok, bytes |-> payloads[i].data]]_vars

\* C17: Create on a directory whose log file exists fails with ErrExisting,
\* returns no handle, and leaves every file of the directory, the meta file
\* included, as it was, creating none.
C17_CreateOnExistingLog ==
    [][\A key \in Keys, meta \in Metas :
          (Create(key, meta) /\ fs.log.exists)
            => /\ last'.err = ErrExisting
               /\ db' = NoHandle
               /\ fs' = fs]_vars

\* the log holds at least one entry and every entry was written under k
LogWrittenWith(dir, k) ==
    /\ Len(dir.log.entries) >= 1
    /\ \A i \in 1..Len(dir.log.entries) : dir.log.entries[i].key = k

\* C18: opening an encrypted database whose log holds at least one entry
\* with a key other than the one the entries were written with fails with
\* ErrInvalidKey and returns no handle.
C18_OpenLogWithOtherKey ==
    [][\A key \in CryptKeys : \A k \in CryptKeys \ {key} :
          (Open(key) /\ LogWrittenWith(fs, k))
            => (last'.err = ErrInvalidKey /\ db' = NoHandle)]_vars

\* the part of C18 the log reader decides: the same with no base file
OpenLogWithOtherKeyNoBase ==
    [][\A key \in CryptKeys : \A k \in CryptKeys \ {key} :
          (Open(key) /\ LogWrittenWith(fs, k) /\ fs.base.kind = Absent)
            => (last'.err = ErrInvalidKey /\ db' = NoHandle)]_vars

\* C19: opening a database whose base file is block-encrypted with a key
\* other than the one it was written with fails with ErrInvalidKey; no
\* handle and no partial state is returned.
C19_OpenBaseWithOtherKey ==
    [][\A key \in CryptKeys :
          (Open(key) /\ fs.base.kind = Data /\ fs.base.key \in CryptKeys \ {key})
            => (last'.err = ErrInvalidKey /\ db' = NoHandle)]_vars

\* the part of C19 the code keeps: the open fails and returns no handle
OpenBaseWithOtherKeyFails ==
    [][\A key \in CryptKeys :
          (Open(key) /\ fs.base.kind = Data /\ fs.base.key \in CryptKeys \ {key})
            => (last'.err = ErrAuth /\ db' = NoHandle)]_vars

\* entry i of the log cannot be replayed with key: it does not decode, names
\* a change type the factory does not know, or the state the entries before
\* it lead to rejects it
BadEntry(dir, key, i) ==
    LET changes == [j \in 1..Len(dir.log.entries) |-> ReadEntry(dir.log.entries[j], key)]
        before == ApplyAll(NewState(ReadBase(dir.base, key).b),
                           [j \in 1..(i - 1) |-> changes[j].c])
    IN  \/ changes[i].err # Ok
        \/ StateApply(before, changes[i].c).err # Ok

SelectorFails(dir, srcKey, dstKey, sel) ==
    LET st == EngineSpliceDatabase(dir.base, dir.log, srcKey, dstKey, sel)
    IN  /\ dir.newBase.kind = Absent /\ ~dir.newLog.exists
        /\ st.err = ErrSelector

C26_SelectorErrorTouchesNothing ==
    [][\A srcKey \in SpliceKeys, dstKey \in SpliceKeys, sel \in FailingSelectors :
          (Splice(srcKey, dstKey, sel) /\ SelectorFails(fs, srcKey, dstKey, sel))
              => /\ last'.err = ErrSelector
                 /\ fs' = fs
                 /\ fs'.newBase.kind = Absent /\ ~fs'.newLog.exists]_vars

\* what does hold: the error is the selector's, and base, log, meta and
\* payload files are as they were
SelectorErrorKeepsFiles ==
    [][\A srcKey \in SpliceKeys, dstKey \in SpliceKeys, sel \in FailingSelectors :
          (Splice(srcKey, dstKey, sel) /\ SelectorFails(fs, srcKey, dstKey, sel))
              => /\ last'.err = ErrSelector
                 /\ fs'.base = fs.base /\ fs'.log = fs.log
                 /\ fs'.meta = fs.meta /\ fs'.payload = fs.payload
                 /\ fs'.newBase.kind # Absent /\ fs'.newLog.exists]_vars

\* the directory is one a handle with srcKey opens, and no splice was left
\* unfinished in it
Spliceable(dir, srcKey) ==
    /\ OpenDatabase(dir, srcKey).err = Ok
    /\ dir.newBase.kind = Absent /\ ~dir.newLog.exists

\* C27: for every source and target key, after splice the directory opens
\* with the target key and yields the state it had before, and the new base
\* and log are stored under the target key (in plaintext when it is empty).
C27_SpliceReKeys ==
    [][\A srcKey \in SpliceKeys, dstKey \in SpliceKeys, sel \in Selectors :
          (Splice(srcKey, dstKey, sel) /\ Spliceable(fs, srcKey))
              => /\ last'.err = Ok
                 /\ OpenDatabase(fs', dstKey).err = Ok
                 /\ OpenDatabase(fs', dstKey).h.state = OpenDatabase(fs, srcKey).h.state
                 /\ fs'.base.kind # Absent /\ fs'.base.key = dstKey
                 /\ fs'.log.exists
                 /\ \A i \in 1..Len(fs'.log.entries) : fs'.log.entries[i].key = dstKey]_vars

\* a directory with base and log under one key was spliced to another key,
\* some of its log staying in the log
C27_Witness ==
    /\ last.op = "splice" /\ last.err = Ok /\ last.rebased = 1
    /\ fs.base.key = "k2"
    /\ Len(fs.log.entries) = 1 /\ fs.log.entries[1].key = "k2"
    /\ OpenDatabase(fs, "k2").err = Ok
    /\ OpenDatabase(fs, "k1").err # Ok

\* base.Apply over a sequence of changes
RECURSIVE BaseApplyAll(_, _)
BaseApplyAll(b, changes) ==
    IF changes = <<>> THEN b
    ELSE BaseApplyAll(BaseApply(b, Head(changes)).b, Tail(changes))

\* the changes of a log as a reader with key decodes them
LogChanges(log, key) == [i \in 1..Len(log.entries) |-> ReadEntry(log.entries[i], key).c]

\* the length of the longest prefix of the log on which the selector says true
SelectedPrefix(sel, changes) ==
    CHOOSE k \in 0..Len(changes) :
        /\ \A i \in 1..k : rebaseChangeSelectFn(sel, changes[i], i - 1).v
        /\ k < Len(changes) => ~rebaseChangeSelectFn(sel, changes[k + 1], k).v

\* C28: splice folds into the new base exactly the longest prefix of the log
\* on which the selector returned true and writes every entry after it, from
\* the first one the selector refused, to the new log in the original order;
\* the selector is called in log order, at most once per entry, and never
\* again after its first false.
C28_SpliceFoldsSelectedPrefix ==
    [][\A srcKey \in SpliceKeys, dstKey \in SpliceKeys, sel \in Selectors \cup FailingSelectors :
          Splice(srcKey, dstKey, sel) =>
              LET st == SpliceDatabase(fs, srcKey, dstKey, sel).st
                  changes == LogChanges(fs.log, srcKey)
                  k == SelectedPrefix(sel, changes)
              IN  /\ \A i \in 1..Len(st.calls) :
                        /\ st.calls[i][1] = i - 1
                        /\ i < Len(st.calls) => st.calls[i][2]
                  /\ Len(st.calls) <= Len(changes)
                  /\ last'.err = Ok =>
                        /\ Len(st.calls) = IF k < Len(changes) THEN k + 1 ELSE k
                        /\ fs'.base.kind # Absent
                        /\ fs'.base.b = BaseApplyAll(ReadBase(fs.base, srcKey).b,
                                                      SubSeq(changes, 1, k))
                        /\ LogChanges(fs'.log, dstKey) = SubSeq(changes, k + 1, Len(changes))]_vars

\* a log of two entries was spliced with the selector refusing the second
C28_Witness ==
    /\ last.op = "splice" /\ last.err = Ok /\ last.rebased = 1
    /\ fs.base.b.value >= 2
    /\ Len(fs.log.entries) = 1

\* C29: when splice is interrupted after base.new and log.new were written
\* and before the first rename, an open of the directory consults neither
\* temporary file and yields the state the directory had before the splice.
C29_InterruptedSpliceKeepsState ==
    [][\A srcKey \in Keys, dstKey \in Keys, sel \in Selectors, at \in InterruptPoints :
          (SpliceInterrupted(srcKey, dstKey, sel, at) /\ Spliceable(fs, srcKey))
              => /\ OpenDatabase(fs', srcKey).err = Ok
                 /\ OpenDatabase(fs', srcKey).h.state = OpenDatabase(fs, srcKey).h.state
                 /\ OpenDatabase(fs', srcKey) =
                        OpenDatabase([fs' EXCEPT !.newBase = NoBaseFile, !.newLog = NoLogFile],
                                     srcKey)]_vars

\* what does hold: up to os.Remove(basePath) the directory opens to the state
\* it had, and at every point the open is the one of the directory without
\* the temporary files
InterruptedBeforeRemoveKeepsState ==
    [][\A srcKey \in Keys, dstKey \in Keys, sel \in Selectors, at \in InterruptPoints :
          (SpliceInterrupted(srcKey, dstKey, sel, at) /\ Spliceable(fs, srcKey))
              => /\ at # "base-removed" =>
                        /\ OpenDatabase(fs', srcKey).err = Ok
                        /\ OpenDatabase(fs', srcKey).h.state = OpenDatabase(fs, srcKey).h.state
                 /\ OpenDatabase(fs', srcKey) =
                        OpenDatabase([fs' EXCEPT !.newBase = NoBaseFile, !.newLog = NoLogFile],
                                     srcKey)]_vars

\* the handle was opened over a base and no log file
OpenedWithoutLog == db.open /\ fs.base.kind # Absent /\ ~fs.log.exists

\* C30: on a handle opened from a directory with a base and no log file, the
\* apply of a valid change succeeds: the log file is created by that write,
\* one record is appended, and logLen becomes 1.
C30_FirstApplyCreatesLog ==
    [][\A c \in CoreChanges :
          (/\ DatabaseApply(c, <<>>)
           /\ OpenedWithoutLog
           /\ StateApply(db.state, c).err = Ok)
              => /\ last'.err = Ok
                 /\ fs'.log.exists /\ Len(fs'.log.entries) = 1
                 /\ db'.open /\ db'.logLen = 1]_vars

\* what the code does there: the call of WriteEntry on the nil LogWriter
\* panics, and no log file appears
ApplyWithoutLogPanics ==
    [][\A c \in CoreChanges :
          (/\ DatabaseApply(c, <<>>)
           /\ OpenedWithoutLog
           /\ StateApply(db.state, c).err = Ok)
              => /\ last'.err = Panic
                 /\ fs' = fs]_vars

\* C31: a splice that fails because base.new or log.new exists, because a
\* log entry cannot be decoded or is of an unknown type, because the source
\* key is wrong, or because the selector returns an error leaves base, log
\* and payload files as they were.
C31_FailedSpliceKeepsFiles ==
    [][\A srcKey \in Keys, dstKey \in Keys, sel \in Selectors \cup FailingSelectors :
          (Splice(srcKey, dstKey, sel) /\ last'.err # Ok)
              => /\ last'.err \in {ErrExisting, ErrDecode, ErrUnknownChangeType,
                                    ErrInvalidKey, ErrAuth, ErrSelector}
                 /\ fs'.base = fs.base
                 /\ fs'.log = fs.log
                 /\ fs'.payload = fs.payload]_vars

\* a splice failed on an entry of an unknown type in a directory that holds
\* a base, and a payload file nothing refers to
C31_Witness ==
    /\ last.op = "splice" /\ last.err = ErrUnknownChangeType
    /\ fs.base.kind # Absent
    /\ fs.payload["a"].kind # Absent /\ "a" \notin fs.base.b.payloads
    /\ fs.newBase.kind # Absent /\ fs.newLog.exists

\* a log write failed since the directory was created empty
WriteLost == hist.fresh /\ "lost" \in DOMAIN hist

\* C32: when the log write of an apply fails after state.Apply succeeded,
\* apply returns the error and logLen is not incremented, and a later open
\* of the directory succeeds with the State of exactly the changes whose
\* apply returned success.
C32_LostWriteIsOnlyLost ==
    [][/\ \A c \in CoreChanges, tail \in Tails :
            ApplyWriteFails(c, tail) => last'.err = ErrWrite /\ db'.logLen = db.logLen
       /\ \A key \in Keys :
            (Open(key) /\ WriteLost /\ key = hist.key)
                => /\ last'.err = Ok
                   /\ db'.state = ApplyAll(NewState(NewBase), hist.applied)]_vars

\* what does hold: the error is returned and logLen stays, and when no byte
\* of the record reached the file the open yields the changes that succeeded
LostWriteWithoutBytes ==
    [][/\ \A c \in CoreChanges, tail \in Tails :
            ApplyWriteFails(c, tail) => last'.err = ErrWrite /\ db'.logLen = db.logLen
       /\ \A key \in Keys :
            (Open(key) /\ WriteLost /\ key = hist.key /\ hist.lost = {"none"})
                => /\ last'.err = Ok
                   /\ db'.state = ApplyAll(NewState(NewBase), hist.applied)]_vars

\* C34: the open of a database created with a key never succeeds with
\* another key, also when the database has no base and an empty log.
C34_OpenOnlyWithCreationKey ==
    [][\A key \in Keys :
          (Open(key) /\ hist.fresh /\ key # hist.key)
              => last'.err # Ok /\ ~db'.open]_vars

\* what does hold: once a change was applied, the open with another key fails
OpenWithOtherKeyAfterApply ==
    [][\A key \in Keys :
          (Open(key) /\ hist.fresh /\ key # hist.key /\ hist.applied # <<>>)
              => last'.err # Ok /\ ~db'.open]_vars

\* the payload files a handle with key reads without error, and their bytes
ReadablePayloads(dir, key) ==
    {id \in PayloadIds : OpenPayload(dir, OpenDatabase(dir, key).h, id).err = Ok}

\* C35: after a splice whose target key differs from its source key, every
\* payload file that survives the collection is readable through
\* OpenPayload on a handle opened with the target key and yields the bytes
\* supplied to apply.
C35_PayloadsReadableAfterReKey ==
    [][\A srcKey \in Keys, dstKey \in Keys, sel \in Selectors :
          (/\ Splice(srcKey, dstKey, sel) /\ last'.err = Ok
           /\ srcKey # dstKey
           /\ OpenDatabase(fs, srcKey).err = Ok)
              => \A id \in ReadablePayloads(fs, srcKey) :
                    fs'.payload[id].kind # Absent
                      => OpenPayload(fs', OpenDatabase(fs', dstKey).h, id) =
                            OpenPayload(fs, OpenDatabase(fs, srcKey).h, id)]_vars

\* what does hold: splice leaves the surviving payload files as they are, so
\* they stay readable under the key they were written with
SpliceKeepsPayloadBytes ==
    [][\A srcKey \in Keys, dstKey \in Keys, sel \in Selectors :
          (Splice(srcKey, dstKey, sel) /\ last'.err = Ok /\ OpenDatabase(fs, srcKey).err = Ok)
              => \A id \in PayloadIds :
                    /\ fs'.payload[id].kind # Absent => fs'.payload[id] = fs.payload[id]
                    /\ (srcKey = dstKey /\ id \in ReadablePayloads(fs, srcKey)
                         /\ fs'.payload[id].kind # Absent)
                          => OpenPayload(fs', OpenDatabase(fs', dstKey).h, id) =
                                OpenPayload(fs, OpenDatabase(fs, srcKey).h, id)]_vars

----------------------------------------------------------------------------
(* Claims about concurrent callers of one engine handle *)

\* the callers between stateMutex.Lock() and the deferred Unlock()
InApply == {w \in Writers : procs[w].at \in {"apply", "write", "count", "unlock", "unlock-err"}}

\* the changes the log holds, read back as OpenDatabase reads them
Logged ==
    [i \in 1..Len(engine.log) |->
        ReadEntry(engine.log[i], engine.key).c]

\* C5: concurrent Apply calls take effect one at a time, and the log holds
\* the changes in exactly the order their state.Apply steps ran (at most the
\* one in flight is still missing), so replaying the log walks through the
\* same states.
C5_ApplyCallsAreSerialized ==
    /\ Cardinality(InApply) <= 1
    /\ Len(engine.log) <= Len(applyOrder)
    /\ Logged = SubSeq(applyOrder, 1, Len(engine.log))
    /\ Len(applyOrder) > Len(engine.log)
         => /\ Len(applyOrder) = Len(engine.log) + 1
            /\ \E w \in Writers :
                  procs[w].at = "write" /\ procs[w].c = applyOrder[Len(applyOrder)]
    /\ engine.state = ApplyAll(NewState(engine.base), applyOrder)
    /\ LET r == ReplayLog(engine.log, engine.key, NewState(engine.base), 0)
       IN  /\ r.err = Ok
           /\ r.state = ApplyAll(NewState(engine.base), SubSeq(applyOrder, 1, Len(engine.log)))

C5_Witness ==
    \E w \in Writers, v \in Writers :
        /\ procs[w].at = "count" /\ procs[v].at = "lock"
        /\ Len(engine.log) = 2
        /\ engine.log[1] # engine.log[2]

\* C6: a state read under the RLocker never overlaps the locked part of
\* Apply, and a read that started after an Apply returned sees that change
\* (it sees the state of every change applied so far, at least the returned
\* ones).
C6_ReadsExcludeApply ==
    /\ \A r \in Readers :
          procs[r].at \in {"read", "runlock"} => InApply = {} /\ r \in stateMutex.readers
    /\ \A r \in Readers :
          procs[r].at = "runlock"
            => /\ procs[r].floor <= Len(applyOrder)
               /\ procs[r].seen = ApplyAll(NewState(engine.base), applyOrder)

C6_Witness ==
    /\ procs["r1"].at = "runlock" /\ procs["r2"].at = "read"
    /\ procs["r1"].floor >= 1 /\ procs["r1"].seen.Counter >= 1
    /\ \E w \in Writers : procs[w].at = "lock"

----------------------------------------------------------------------------
(* Claims about the deck *)

\* the callers holding an unreleased borrow of path
Borrowers(path) == {x \in Callers : callers[x].at = "borrowed" /\ callers[x].path = path}

\* C9: at no time do two callers hold an unreleased borrow of the same
\* path, whatever the capacity and also when the LRU drops a borrowed path.
C9_OneBorrowPerPath ==
    \A path \in Paths : Cardinality(Borrowers(path)) <= 1

\* the entries the cache items hold for path
Cached(path) ==
    {databases.items[i].entry :
        i \in {j \in 1..Len(databases.items) : databases.items[j].path = path}}

\* C10: the cache holds at most one entry per path; Open on a cached path
\* makes no new entry and hands out the cached one; Open makes an entry only
\* for a path that is not cached, so of the callers opening one uncached
\* path the first makes the entry and everyone waiting to lock an entry
\* waits for the cached one.
C10_OneHandlePerPath ==
    /\ [](/\ \A i, j \in 1..Len(databases.items) :
                i # j => databases.items[i].path # databases.items[j].path
          /\ \A x \in Callers :
                callers[x].at = "dbMutex" => Cached(callers[x].path) = {callers[x].entry})
    /\ [][\A x \in Callers, path \in Paths, key \in Keys :
            DeckOpen(x, path, key)
              => /\ Cached(path) # {}
                      => /\ deckEntries' = deckEntries
                         /\ Cached(path)' = Cached(path)
                         /\ callers'[x].at = "dbMutex"
                              => {callers'[x].entry} = Cached(path)
                 /\ deckEntries' # deckEntries
                      => /\ Cached(path) = {}
                         /\ Len(deckEntries') = Len(deckEntries) + 1
                         /\ Cached(path)' = {Len(deckEntries')}
                         /\ callers'[x].at = "dbMutex"
                              => callers'[x].entry = Len(deckEntries')]_vars

C10_Witness ==
    \E x \in Callers, y \in Callers :
        /\ callers[x].at = "dbMutex" /\ callers[y].at = "borrowed"
        /\ callers[x].entry = callers[y].entry
        /\ Len(databases.items) = 2

\* the entries some cache item holds
CachedEntries == {databases.items[i].entry : i \in 1..Len(databases.items)}

\* the entries a caller has in hand: borrowed, or waited for inside Open
InHand == {callers[x].entry : x \in {y \in Callers : callers[y].at \in {"dbMutex", "borrowed"}}}

\* the deck's side of C17: a Create through the deck on a path whose log
\* exists returns ErrExisting and leaves the cache, its length and the
\* directory alone (the deck passes no meta option here)
DeckCreateOnExistingLog ==
    [][\A x \in Callers, path \in Paths, key \in Keys :
          (DeckCreate(x, path, key) /\ dirs[path].log.exists)
            => /\ deckLast' = ErrExisting
               /\ databases' = databases
               /\ deckEntries' = deckEntries
               /\ dirs' = dirs]_vars

\* C11: an entry the LRU dropped is closed once no borrow of it is live: no
\* database the deck opened stays open when it is neither cached nor in a
\* caller's hand.
C11_EvictedIsClosed ==
    \A e \in 1..Len(deckEntries) :
        deckEntries[e].db.open => e \in CachedEntries \cup InHand

\* C12: Open on a cached path with a key other than the cached handle's
\* returns ErrInvalidKey and no handle, and no per-entry lock changes hands
\* (nor does the call keep databasesMutex).
C12_WrongKeyOnCachedPath ==
    [][\A x \in Callers, path \in Paths, key \in Keys :
          (/\ DeckOpen(x, path, key)
           /\ \E e \in Cached(path) : deckEntries[e].db.key # key)
            => /\ deckLast' = ErrInvalidKey
               /\ callers'[x] = NoCall
               /\ deckEntries' = deckEntries
               /\ databasesMutex' = NoProc]_vars

C12_Witness ==
    /\ deckLast = ErrInvalidKey
    /\ \A path \in Paths : dirs[path].base.kind = Absent
    /\ \E y \in Callers : callers[y].at = "borrowed"
    /\ \A x \in Callers : callers[x].at \in {"idle", "borrowed"}

\* caller x is inside Open with a key other than the cached handle's
WrongKeyCall(x) ==
    /\ callers[x].at = "open"
    /\ \E e \in Cached(callers[x].path) : deckEntries[e].db.key # callers[x].key

\* C13: an Open with a non-matching key on a cached path always returns,
\* also when another caller keeps the borrow of that path for ever and
\* further callers wait to open it.
C13_WrongKeyOpenReturns ==
    \A x \in Callers : WrongKeyCall(x) ~> (callers[x].at = "idle")

\* a caller holds a borrow of a database of path
Borrowed(path) ==
    \E y \in Callers :
        callers[y].at = "borrowed" /\ deckEntries[callers[y].entry].path = path

\* C33: an unreleased borrow of path p never keeps a deck operation on the
\* other path q from completing, also while other callers wait to open p:
\* an Open of q that was called returns or gets its borrow, unless q itself
\* is borrowed.
C33_OtherPathCompletes ==
    \A x \in Callers :
        (callers[x].at = "open" /\ callers[x].path = "q")
            ~> (callers[x].at \in {"idle", "borrowed"} \/ Borrowed("q"))

\* C36: Deck.Open never returns a handle whose database was closed: after
\* any deck operations, those where Close or RemoveAll fails included, every
\* entry that remains in the cache holds an open database, and so does
\* every borrowed handle.
C36_CachedEntriesAreOpen ==
    /\ \A e \in CachedEntries : deckEntries[e].db.open
    /\ \A x \in Callers : callers[x].at = "borrowed" => deckEntries[callers[x].entry].db.open

\* what does hold: in a deck where no Close and no RemoveAll fails, cached
\* entries and borrowed handles are open
CachedEntriesAreOpenWithoutFailure == C36_CachedEntriesAreOpen

\* what does hold with failures: only a failed Delete or Splice leaves a
\* closed database in the cache; a failed Close of the deck does not
FailedCloseLeavesOpenEntries ==
    [][\A x \in Callers :
          DeckCloseEntryFails(x) => \A e \in CachedEntries' : deckEntries'[e].db.open = deckEntries[e].db.open]_vars

\* C14: Close, Delete and Splice close a database only with its entry's
\* dbMutex in hand: no step closes an entry a caller holds a borrow of, and
\* no step of Delete or Splice changes the directory of a path whose cached
\* entry a caller holds a borrow of.
C14_ClosedOnlyUnderEntryLock ==
    [][/\ \A e \in 1..Len(deckEntries) :
            (deckEntries[e].db.open /\ ~deckEntries'[e].db.open)
              => /\ deckEntries[e].dbMutex = NoProc
                 /\ \A y \in Callers :
                       ~(callers[y].at = "borrowed" /\ callers[y].entry = e)
       /\ \A x \in Callers :
            (\/ DeckDeleteEntry(x) \/ DeckSpliceEntry(x)
             \/ \E path \in Paths : DeckDelete(x, path)
             \/ \E path \in Paths, key \in Keys : DeckSplice(x, path, key))
              => \A path \in Paths :
                    dirs'[path] # dirs[path]
                      => \A e \in Cached(path) : deckEntries[e].dbMutex = NoProc]_vars

C14_Witness ==
    \E x \in Callers, y \in Callers :
        /\ callers[x].at \in {"closing", "deleting", "splicing"}
        /\ callers[y].at = "borrowed"
        /\ callers[x].entry = callers[y].entry
        /\ deckEntries[callers[y].entry].db.open

----------------------------------------------------------------------------
(* Claims about the log codec *)

\* C20: entries written through the encrypting log writer with key K and
\* read through the decrypting reader with K come back as the same bodies
\* in the same order, each of type Binary; every entry opens on its own,
\* whatever else the buffer holds; read with another key, each of them
\* yields ErrInvalidKey.
C20_LogRoundTrip ==
    /\ CryptoReadAll(logBuffer, logKey)
          = [i \in 1..Len(logPlain) |->
                [type |-> LogEntryTypeBinary, err |-> Ok, body |-> logPlain[i]]]
    /\ \A i \in 1..Len(logBuffer) :
          /\ CryptoEntryReader(logBuffer[i], logKey) = [err |-> Ok, body |-> logPlain[i]]
          /\ \A key \in CryptKeys \ {logKey} :
                CryptoEntryReader(logBuffer[i], key).err = ErrInvalidKey
    /\ logRead.index >= 1 =>
          /\ logRead.type = LogEntryTypeBinary
          /\ logRead.key = logKey => (logRead.err = Ok /\ logRead.body = logPlain[logRead.index])
          /\ logRead.key # logKey => logRead.err = ErrInvalidKey

C20_Witness ==
    /\ Len(logBuffer) = MaxLog
    /\ logPlain[1] # logPlain[2]
    /\ logBuffer[1].data.nonce = logBuffer[2].data.nonce
    /\ logRead.index = 2 /\ logRead.key # logKey /\ logRead.err = ErrInvalidKey

----------------------------------------------------------------------------
(* Claims about the block codec *)

\* C21: whatever plaintext is handed to a block writer, the empty one and
\* one of several blocks included, in whatever split across Write calls,
\* comes back unchanged when the output is read with the same key after
\* Close.
C21_BlockRoundTrip ==
    blockW.closed =>
        /\ BlockReadAll(blockOut, blockW.key) = [err |-> Ok, len |-> SumSeq(blockPlain)]
        /\ blockRead.key = blockW.key =>
              (blockRead.err = Ok /\ blockRead.len = SumSeq(blockPlain))

\* what the block codec does keep: once Write was called, and while no more
\* than a length field can hold is left for Close, the plaintext comes back
BlockRoundTripWithinField ==
    (/\ blockW.closed /\ blockPlain # <<>>
     /\ \A i \in 1..Len(blockOut) : blockOut[i].len + TagSize < Uint16)
        => BlockReadAll(blockOut, blockW.key) = [err |-> Ok, len |-> SumSeq(blockPlain)]

\* C22: a block writer closed with no plaintext written has put out the
\* 12-byte nonce and nothing else.
C22_EmptyEmitsNonce ==
    (blockW.closed /\ SumSeq(blockPlain) = 0)
        => (blockOut = <<NonceItem>> /\ OutLen(blockOut) = NonceSize)

\* the same once Write was called, with no bytes
EmptyWriteEmitsNonce ==
    (blockW.closed /\ SumSeq(blockPlain) = 0 /\ blockPlain # <<>>)
        => (blockOut = <<NonceItem>> /\ OutLen(blockOut) = NonceSize)

\* C39: writer and reader use the same nonces: block 0 is sealed and opened
\* with the nonce of the file, block k+1 with the link after the nonce of
\* block k (the last 12 bytes of its SHA256), one step per block written
\* or read.
C39_SameNonceSequence ==
    blockOut # <<>> =>
        LET blocks == Tail(blockOut)
            opened == openNonces(blocks, blockW.key, 0)
        IN  /\ \A k \in 1..Len(blocks) : blocks[k].nonceIx = k - 1
            /\ \A k \in 1..Len(opened) : opened[k] = blocks[k].nonceIx
            /\ (blockRead.key = blockW.key /\ blockRead.err # Ok)
                  => \E k \in 1..Len(blocks) : blocks[k].ctLen # blocks[k].len + TagSize

\* three blocks written and read back with the writer's key
C39_Witness ==
    /\ blockW.closed /\ Len(blockOut) = 4
    /\ blockOut[4].nonceIx = 2
    /\ blockRead.key = blockW.key /\ blockRead.err = Ok
    /\ blockRead.len = SumSeq(blockPlain)

\* the blocks of the output
Blocks(out) == {i \in 1..Len(out) : out[i].kind = "block"}

\* C37: every block the writer puts out, from Write or from Close, carries
\* at most 4096 bytes of plaintext, and its 16-bit length field is the
\* length of its ciphertext, however the plaintext is split across Write
\* calls.
C37_BlocksWithinBlockSize ==
    \A i \in Blocks(blockOut) :
        /\ blockOut[i].len <= BlockSize
        /\ blockOut[i].ctLen = blockOut[i].len + TagSize

\* what does hold: a block put out by Write carries exactly 4096 bytes with
\* a true length field; only the block of Close carries whatever is left
BlocksOfWriteAreFull ==
    \A i \in Blocks(blockOut) :
        (i < Len(blockOut) \/ ~blockW.closed)
            => /\ blockOut[i].len = BlockSize
               /\ blockOut[i].ctLen = BlockSize + TagSize

----------------------------------------------------------------------------
(* Claims about the plain log codec *)

\* every body written fits the 28 bits of the size field
FramesFit == \A i \in 1..Len(frameLog) : frameLog[i].len < SizeBits

\* C38: every record WriteEntry writes has a header whose low 28 bits are
\* the length of the body that follows and whose top 4 bits are the type;
\* no record is written whose header size differs from its body length,
\* bodies of more than 268,435,455 bytes included.
C38_HeaderSizeIsBodyLength ==
    \A i \in 1..Len(frameLog) :
        /\ frameLog[i].size = frameLog[i].len
        /\ frameLog[i].type \in LogEntryTypes
        /\ frameLog[i].n = HeaderSize + frameLog[i].len

\* what does hold: the header size is the body length cut to 28 bits, and
\* all bytes of the body are written and counted
HeaderSizeIsBodyLengthCut ==
    \A i \in 1..Len(frameLog) :
        /\ frameLog[i].size = frameLog[i].len % SizeBits
        /\ frameLog[i].n = HeaderSize + frameLog[i].len

\* C40: reading a log whose final record declares a body larger than the
\* bytes left in the file, to open a database or to count the entries with
\* ReadLogLen, fails with the malformed-log error; the record is neither
\* accepted nor counted.
C40_TruncatedRecordIsMalformed ==
    (Truncated /\ frameR.done)
        => /\ frameR.err = ErrMalformedLog
           /\ \A j \in 1..Len(frameGot) : frameGot[j].src # Len(frameLog)

\* what does hold: a consumer that reads the body of the cut record to its
\* end fails with the unexpected-EOF error of io.ReadFull; one that only
\* counts is handed the cut record and ends with success
TruncatedRecordFailsOnlyWhenRead ==
    (Truncated /\ frameR.done)
        => /\ frameR.err \in {Ok, ErrUnexpectedEOF}
           /\ frameR.err = Ok
                 => /\ Len(frameGot) = Len(frameLog)
                    /\ frameGot[Len(frameGot)].read < frameGot[Len(frameGot)].size
           /\ frameR.err = ErrUnexpectedEOF
                 => frameGot # <<>> /\ frameGot[Len(frameGot)].src = Len(frameLog)

\* C23: entries written with WriteEntry (a 4-byte header, type in the top 4
\* bits, body length in the low 28, then the body; 4 + body length bytes
\* reported) are read back with the same types and bodies in the same
\* order, also when the consumer reads only a prefix of an entry, or
\* nothing of it, before it asks for the next one.
C23_FramedRoundTrip ==
    FramesFit =>
        /\ \A i \in 1..Len(frameLog) :
              /\ frameLog[i].n = HeaderSize + frameLog[i].len
              /\ frameLog[i].size = frameLog[i].len
        /\ \A j \in 1..Len(frameGot) :
              /\ frameGot[j].src = j
              /\ frameGot[j].type = frameLog[j].type
              /\ frameGot[j].size = frameLog[j].len
              /\ frameGot[j].read <= frameLog[j].len
        /\ frameR.err # ErrGarbled
        /\ (frameR.done /\ frameTail = 0)
              => (frameR.err = Ok /\ Len(frameGot) = Len(frameLog))

C23_Witness ==
    /\ FramesFit /\ frameR.done /\ frameTail = 0
    /\ Len(frameGot) = MaxLog
    /\ frameGot[1].size = 4 /\ frameGot[1].read = 1
    /\ frameGot[2].size = 1 /\ frameGot[2].read = 0
    /\ frameGot[1].type # frameGot[2].type

\* C24: reading a log that ends in a partial header of 1 to 3 bytes fails
\* with the malformed-log error; a log that ends at an entry boundary is
\* read to its end with success.
C24_PartialHeaderIsMalformed ==
    (FramesFit /\ frameR.done)
        => /\ frameTail >= 1 => frameR.err = ErrMalformedLog
           /\ frameTail = 0 => frameR.err = Ok

\* what the code does on a partial header: it fails, with io.ErrUnexpectedEOF
PartialHeaderFails ==
    (FramesFit /\ frameR.done)
        => /\ frameTail >= 1 => frameR.err = ErrUnexpectedEOF
           /\ frameTail = 0 => frameR.err = Ok

====
